---------------------------- MODULE Spec2Model ----------------------------
(***************************************************************************)
(* gnome-to-v4l2loopback: screen-cast frames from a portal session,        *)
(* delivered over PipeWire, converted to YUYV and written to a V4L2        *)
(* loopback device.                                                        *)
(*                                                                         *)
(* The module follows src/src/main.c and src/src/portal.c.  Pointers are   *)
(* modelled by whether they are NULL (FALSE) or not (TRUE), file           *)
(* descriptors by -1 or a non-negative number, buffers by their size.      *)
(* Outcomes of system and library calls (open, ioctl, mmap, malloc, write, *)
(* the D-Bus calls) are chosen non-deterministically where the code tests  *)
(* them.                                                                   *)
(*                                                                         *)
(* Threads: main() and every callback dispatched by the GLib loop and by   *)
(* the PipeWire main loop run on the main thread (variable pc).  The       *)
(* stream is connected with PW_STREAM_FLAG_RT_PROCESS, so PipeWire calls   *)
(* on_stream_process from its data thread (variable rtPc).                 *)
(***************************************************************************)
EXTENDS Integers, Sequences, FiniteSets, TLC

(***************************************************************************)
(* Bounds of the model.                                                    *)
(***************************************************************************)
MaxWidth == 2
MaxHeight == 1
MaxConvWidth == 5
MaxConvHeight == 3
MaxFrameWidth == 12
MaxFrameHeight == 100
MaxImports == 2

(***************************************************************************)
(* Program constants.                                                      *)
(***************************************************************************)
SKIP_FRAMES == 5
MAX_WRITE_ERRORS == 5
YUYV_BYTES_PER_PIXEL == 2
COLOR_BARS_WIDTH == 1280
COLOR_BARS_HEIGHT == 720

\* SPA video format ids used by the code (spa/param/video/raw.h numbering).
SPA_VIDEO_FORMAT_YUY2 == 4
SPA_VIDEO_FORMAT_BGRx == 8
SPA_VIDEO_FORMAT_RGB == 15
SPA_VIDEO_FORMAT_BGR == 16

\* The layouts the conversion switch of on_stream_process handles.
SupportedFormats == {7, 8, 9, 10, 12, 13, 14, 15, 16} \cup {11}

\* The buffer descriptors the transport may deliver (d = &buf->datas[0]).
\* chunk_stride and chunk_size are chosen to fall on and above the tightly
\* packed row of the negotiated geometry.
PlainChunk == [stride |-> 0, size |-> 0]
Chunks ==
    {PlainChunk, [stride |-> 0, size |-> 2 * 4 * MaxWidth * MaxHeight],
     [stride |-> 4 * MaxWidth + 4, size |-> 0]}

BufferDescs ==
    {[type |-> "MemFd", mappable |-> TRUE, data_null |-> TRUE, chunk |-> c] : c \in Chunks}
    \cup {[type |-> "DmaBuf", mappable |-> m, data_null |-> TRUE, chunk |-> c] :
            m \in BOOLEAN, c \in Chunks}
    \cup {[type |-> "MemPtr", mappable |-> FALSE, data_null |-> n, chunk |-> c] :
            n \in BOOLEAN, c \in Chunks}
    \cup {[type |-> "Invalid", mappable |-> FALSE, data_null |-> TRUE,
           chunk |-> PlainChunk]}

(***************************************************************************)
(* Environments.  A behaviour runs against one environment, fixed at its   *)
(* start: the command lines, the outcomes of the calls that may fail, the  *)
(* formats and geometries the transport negotiates (the stream offers      *)
(* "video/raw" with no format constraint, so any raw layout may come, here *)
(* YUY2 as the one the conversion switch does not handle), the buffers it  *)
(* delivers, the kinds of param events other than a parsed format, whether *)
(* the sink accepts part of a frame, and whether the portal session closes *)
(* and signals arrive.  Each environment varies one group of inputs and    *)
(* keeps the others at one value.                                          *)
(***************************************************************************)
EnvNegotiation ==
    [name |-> "negotiation",
     short_writes |-> TRUE,
     renegotiates |-> TRUE,
     args |-> {"none"},
     gl |-> {"NULL"},
     startup_fails |-> FALSE,
     alloc_fails |-> FALSE,
     formats |-> {SPA_VIDEO_FORMAT_YUY2, SPA_VIDEO_FORMAT_BGRx, SPA_VIDEO_FORMAT_RGB},
     params |-> {"null", "buffers", "other_id", "unparsable"},
     widths |-> 1..MaxWidth,
     heights |-> {MaxHeight},
     buffers |-> {d \in BufferDescs : d.type = "MemPtr" /\ ~d.data_null
                                      /\ d.chunk = PlainChunk},
     closes |-> FALSE,
     signals |-> FALSE]

EnvAllocation ==
    [name |-> "allocation",
     short_writes |-> FALSE,
     renegotiates |-> TRUE,
     args |-> {"none"},
     gl |-> {"NULL"},
     startup_fails |-> FALSE,
     alloc_fails |-> TRUE,
     formats |-> {SPA_VIDEO_FORMAT_BGRx},
     params |-> {"buffers"},
     widths |-> 1..MaxWidth,
     heights |-> {MaxHeight},
     buffers |-> {d \in BufferDescs : d.type = "MemPtr" /\ ~d.data_null
                                      /\ d.chunk = PlainChunk},
     closes |-> FALSE,
     signals |-> FALSE]

\* The end-to-end scenario: one negotiation of 1280x720 in BGRx, then frames
\* in plain memory whose chunk reports the tightly packed stride 1280*4.
EnvScenario ==
    [name |-> "scenario",
     short_writes |-> FALSE,
     renegotiates |-> FALSE,
     args |-> {"none"},
     gl |-> {"NULL"},
     startup_fails |-> FALSE,
     alloc_fails |-> FALSE,
     formats |-> {SPA_VIDEO_FORMAT_BGRx},
     params |-> {"buffers"},
     widths |-> {COLOR_BARS_WIDTH},
     heights |-> {COLOR_BARS_HEIGHT},
     buffers |-> {[type |-> "MemPtr", mappable |-> FALSE, data_null |-> FALSE,
                   chunk |-> [stride |-> COLOR_BARS_WIDTH * 4,
                              size |-> COLOR_BARS_WIDTH * 4 * COLOR_BARS_HEIGHT]]},
     closes |-> FALSE,
     signals |-> FALSE]

EnvBuffers ==
    [name |-> "buffers",
     short_writes |-> FALSE,
     renegotiates |-> TRUE,
     args |-> {"none"},
     gl |-> {"NULL", "no_import", "import"},
     startup_fails |-> FALSE,
     alloc_fails |-> TRUE,
     formats |-> {SPA_VIDEO_FORMAT_BGRx},
     params |-> {"buffers"},
     widths |-> {MaxWidth},
     heights |-> {MaxHeight},
     buffers |-> {d \in BufferDescs : d.type = "MemFd" \/ d.chunk = PlainChunk},
     closes |-> FALSE,
     signals |-> FALSE]

EnvLifecycle ==
    [name |-> "lifecycle",
     short_writes |-> FALSE,
     renegotiates |-> TRUE,
     args |-> {"none", "color_bars", "help", "unknown_option"},
     gl |-> {"NULL", "import"},
     startup_fails |-> TRUE,
     alloc_fails |-> FALSE,
     formats |-> {SPA_VIDEO_FORMAT_BGRx},
     params |-> {"buffers"},
     widths |-> {MaxWidth},
     heights |-> {MaxHeight},
     buffers |-> {d \in BufferDescs : d.type = "MemPtr" /\ ~d.data_null
                                      /\ d.chunk = PlainChunk},
     closes |-> TRUE,
     signals |-> TRUE]

Environments ==
    {EnvNegotiation, EnvAllocation, EnvScenario, EnvBuffers, EnvLifecycle}

VARIABLES
    env,                \* the environment of this behaviour
    pc,                 \* position of the main thread in main()
    exit_code,          \* value returned by main(), -1 while running
    global_app_data,    \* the global pointer read by signal_handler
    data,               \* struct app_data
    session,            \* struct PortalSession (and the proxy's callback slots)
    write_error_count,  \* static int write_error_count of on_stream_process
    glib_running,       \* is_running of session->main_loop
    pw_running,         \* running flag of the PipeWire main loop
    sink,               \* geometry the V4L2 device was last set to, <<0,0>> if none
    rtPc,               \* position of the data thread in on_stream_process
    last,               \* what the stream callback that just returned did
    consec_failed,      \* history: failed sink writes since the last one that did not fail
    frames_since_format,\* history: frames delivered since the last format event
    sig_received,       \* history: a termination signal was delivered
    leaked,             \* history: heap blocks whose only pointer was overwritten
    released,           \* history: release calls made by cleanup, per resource
    conv                \* a call of convert_bgrx_to_yuyv: arguments, loop position,
                        \* and history: the offsets it read and wrote

vars == <<env, pc, exit_code, global_app_data, data, session, write_error_count,
          glib_running, pw_running, sink, rtPc, last, consec_failed,
          frames_since_format, sig_received, leaked, released, conv>>

Min(a, b) == IF a < b THEN a ELSE b

(***************************************************************************)
(* Initial state: main() has zeroed struct app_data, set global_app_data   *)
(* and installed signal_handler for SIGINT and SIGTERM.                    *)
(***************************************************************************)
InitData ==
    [loop |-> FALSE, context |-> FALSE, core |-> FALSE, stream |-> FALSE,
     portal_session |-> FALSE, v4l2_fd |-> 0,
     width |-> 0, height |-> 0, stride |-> 0, spa_format |-> 0,
     portal_ready |-> FALSE, stream_ready |-> FALSE, format_set |-> FALSE,
     color_bars_mode |-> FALSE, frame_skip_count |-> 0,
     conversion_buffer |-> FALSE, conversion_buffer_size |-> 0,
     gl_ctx |-> "NULL", gl_buffer |-> FALSE, gl_buffer_size |-> 0]

InitSession ==
    [session_active |-> FALSE, pipewire_fd |-> -1,
     create_session_callback |-> FALSE, select_sources_callback |-> FALSE,
     start_session_callback |-> FALSE, node_id |-> 0,
     request |-> "none", closed |-> "no", fd_given |-> FALSE, fd_closes |-> 0,
     invoked |-> [stage \in {"created", "selected", "started", "ready"} |-> 0]]

\* The record of a frame callback (or, in param, of the kind of param event
\* handled); NoFrame when the last step was neither.
NoFrame ==
    [dequeued |-> FALSE, queued |-> 0, mmaps |-> 0, munmaps |-> 0,
     path |-> "none", converted |-> FALSE, wrote |-> FALSE, written |-> 0,
     quit |-> FALSE,
     type |-> "none", mappable |-> FALSE, imports |-> 0, imported |-> FALSE,
     mmap_calls |-> 0, param |-> "none", write_len |-> 0,
     stream_error |-> FALSE, s_fmt |-> FALSE, allocs |-> 0,
     stage |-> "none", issued |-> "none", node |-> 0, ready_node |-> 0,
     signalled |-> FALSE, sig_loop |-> FALSE, sig_session |-> FALSE]

\* No call of convert_bgrx_to_yuyv is being followed.
NoConversion ==
    [width |-> 0, height |-> 0, src_stride |-> 0, at |-> "none", y |-> 0, x |-> 0,
     dst_row |-> 0, src_read |-> {}, dst_written |-> {},
     seed |-> 0, step |-> 0, dst |-> <<>>, beyond |-> {}, first |-> <<>>,
     calls |-> 0]

\* What cleanup may release (lines 1517-1535).
Resources ==
    {"stream", "core", "context", "portal_session", "v4l2_fd",
     "conversion_buffer", "gl_buffer", "gl_ctx", "loop"}

\* Lines 694 and 775: `p = realloc(p, n)` stores NULL over p when realloc
\* fails and leaves the old block allocated; the blocks of struct app_data
\* `d` that nothing points to once the struct is `d2`.
Orphaned(d, d2) ==
    {f \in {"conversion_buffer", "gl_buffer"} : d[f] /\ ~d2[f]}

\* Outcomes of a call that may fail / of an allocation, in this environment.
Outcomes == IF env.startup_fails THEN BOOLEAN ELSE {TRUE}
Allocs == IF env.alloc_fails THEN BOOLEAN ELSE {TRUE}

InitPipeline ==
    /\ pc = "parse_args"
    /\ exit_code = -1
    /\ global_app_data = TRUE
    /\ data = InitData
    /\ session = InitSession
    /\ write_error_count = 0
    /\ glib_running = FALSE
    /\ pw_running = FALSE
    /\ sink = <<0, 0>>
    /\ rtPc = "idle"
    /\ last = NoFrame
    /\ consec_failed = 0
    /\ frames_since_format = 0
    /\ sig_received = FALSE
    /\ leaked = {}
    /\ released = [r \in Resources |-> 0]

Init ==
    /\ env \in Environments
    /\ InitPipeline
    /\ conv = NoConversion

(***************************************************************************)
(* Helpers of the frame path.                                              *)
(***************************************************************************)

\* bytes_per_pixel: 3 for the two 24-bit layouts, 4 otherwise.
BytesPerPixel(spa_format) ==
    IF spa_format = SPA_VIDEO_FORMAT_RGB \/ spa_format = SPA_VIDEO_FORMAT_BGR
    THEN 3 ELSE 4

\* Mutation of ResolveStride: the result is not raised to the minimum.
ResolveStride_NoClamp(chunk_stride, chunk_size, width, height, spa_format) ==
    IF chunk_stride > 0 THEN chunk_stride
    ELSE IF height > 0 /\ chunk_size > 0 THEN chunk_size \div height
    ELSE width * BytesPerPixel(spa_format)

\* The stride resolution of on_stream_process.
ResolveStride(chunk_stride, chunk_size, width, height, spa_format) ==
    LET min_stride == width * BytesPerPixel(spa_format)
        actual_stride ==
            IF chunk_stride > 0 THEN chunk_stride
            ELSE IF height > 0 /\ chunk_size > 0 THEN chunk_size \div height
            ELSE min_stride
    IN  IF actual_stride < min_stride THEN min_stride ELSE actual_stride

\* Conversions that go through a malloc'ed temp_argb buffer and return
\* without converting when the allocation or the first stage fails.
UsesTempBuffer(spa_format) == spa_format \in {7, 10, 11, 12, 14, 15, 16}

\* gl_has_dma_buf_import_support(data->gl_ctx)
gl_has_dma_buf_import_support(gl_ctx) == gl_ctx = "import"

\* Lines 760-871: resolve the frame pointer.  The result is the set of
\* outcomes the calls made on the way (realloc, gl_import_dma_buffer, mmap)
\* allow: frame_data and mapped_data as the code leaves them, the label the
\* code jumps to ("none" when it goes on to the stride), and the GL readback
\* buffer fields.
AcquireGL(d) ==
    IF d.type = "DmaBuf" /\ data.gl_ctx # "NULL"
       /\ gl_has_dma_buf_import_support(data.gl_ctx)
    THEN LET required_size == data.width * data.height * 4
             need == ~data.gl_buffer \/ data.gl_buffer_size < required_size
             allocs == IF need
                       THEN {[ok |-> ok, buf |-> ok, size |-> required_size] :
                                ok \in Allocs}
                       ELSE {[ok |-> TRUE, buf |-> data.gl_buffer,
                              size |-> data.gl_buffer_size]}
         IN  UNION {IF al.ok
                    THEN {[frame_data |-> IF imported THEN "gl" ELSE "NULL",
                           goto |-> "none", gl_buffer |-> al.buf,
                           gl_buffer_size |-> al.size, imports |-> 1] :
                              imported \in BOOLEAN}
                    ELSE {[frame_data |-> "NULL", goto |-> "done",
                           gl_buffer |-> al.buf, gl_buffer_size |-> al.size,
                           imports |-> 0]}
                    : al \in allocs}
    ELSE {[frame_data |-> "NULL", goto |-> "none", gl_buffer |-> data.gl_buffer,
           gl_buffer_size |-> data.gl_buffer_size, imports |-> 0]}

\* The label taken when mmap returns MAP_FAILED.
MmapFailedLabel == "done"

\* Mutation of AcquireMap: a DMA buffer is mapped whether or not it carries
\* the mappable flag.
AcquireMap_IgnoresMappable(d, g) ==
    IF g.goto = "done"
    THEN {g @@ [mapped_data |-> "NULL"]}
    ELSE IF g.frame_data # "NULL"
    THEN {g @@ [mapped_data |-> "NULL"]}
    ELSE {[g EXCEPT !.frame_data = "map"] @@ [mapped_data |-> "addr"],
          [g EXCEPT !.goto = MmapFailedLabel] @@ [mapped_data |-> "MAP_FAILED"]}

\* Mutation of AcquireMap: MAP_FAILED is not detected and is used as the
\* frame pointer.
AcquireMap_FailedMapUsed(d, g) ==
    IF g.goto = "done"
    THEN {g @@ [mapped_data |-> "NULL"]}
    ELSE IF g.frame_data # "NULL"
    THEN {g @@ [mapped_data |-> "NULL"]}
    ELSE IF d.type = "DmaBuf" /\ ~d.mappable
    THEN {[g EXCEPT !.goto = "done"] @@ [mapped_data |-> "NULL"]}
    ELSE {[g EXCEPT !.frame_data = "map"] @@ [mapped_data |-> "addr"],
          [g EXCEPT !.frame_data = "map"] @@ [mapped_data |-> "MAP_FAILED"]}

\* Lines 831-855: the mapping fallback, after the GL import stage returned g.
AcquireMap(d, g) ==
    IF g.goto = "done"
    THEN {g @@ [mapped_data |-> "NULL"]}
    ELSE IF g.frame_data # "NULL"
    THEN {g @@ [mapped_data |-> "NULL"]}
    ELSE IF d.type = "DmaBuf" /\ ~d.mappable
    THEN {[g EXCEPT !.goto = "done"] @@ [mapped_data |-> "NULL"]}
    ELSE {[g EXCEPT !.frame_data = "map"] @@ [mapped_data |-> "addr"],
          [g EXCEPT !.goto = MmapFailedLabel] @@ [mapped_data |-> "MAP_FAILED"]}

AcquireOutcomes(d) ==
    LET plain == [frame_data |-> "NULL", goto |-> "none",
                  gl_buffer |-> data.gl_buffer,
                  gl_buffer_size |-> data.gl_buffer_size, imports |-> 0,
                  mapped_data |-> "NULL"]
        got == IF d.type \in {"MemFd", "DmaBuf"}
               THEN UNION {AcquireMap(d, g) : g \in AcquireGL(d)}
               ELSE IF d.type = "MemPtr"
               THEN {[plain EXCEPT !.frame_data = IF d.data_null THEN "NULL" ELSE "ptr"]}
               ELSE {[plain EXCEPT !.goto = "done"]}
    IN  {IF a.goto = "none" /\ a.frame_data = "NULL"
         THEN [a EXCEPT !.goto = "cleanup_map"] ELSE a : a \in got}

\* Mutation of Munmaps: a failed mmap also goes through cleanup_map.
Munmaps_AnyLabel(label, mapped_data, type) ==
    IF mapped_data # "NULL" /\ type \in {"MemFd", "DmaBuf"}
    THEN 1 ELSE 0

\* cleanup_map: the munmap calls made for a callback that leaves through
\* `label` with mapped_data as given.
Munmaps(label, mapped_data, type) ==
    IF label # "done" /\ mapped_data # "NULL" /\ type \in {"MemFd", "DmaBuf"}
    THEN 1 ELSE 0

\* Mutation of QueueBuffer: the paths that jump to done return the buffer
\* to nobody.
QueueBuffer_NotOnDone(label) == IF label = "done" THEN 0 ELSE 1

\* done: the pw_stream_queue_buffer calls made on the way out.
QueueBuffer(label) == 1

\* Lines 1110-1135: the failure counter after a write that returned `written`.
NextWriteErrorCount(written, count) ==
    IF written < 0 THEN count + 1
    ELSE IF written > 0 THEN 0
    ELSE count

\* Mutation of QuitAfterWrite: the session state is not consulted.
QuitAfterWrite_CounterOnly(written, count, has_session, active, has_loop) ==
    /\ written < 0
    /\ count >= MAX_WRITE_ERRORS
    /\ has_loop

\* Lines 1115-1130: whether pw_main_loop_quit is called after the counter
\* was updated to `count`.
QuitAfterWrite(written, count, has_session, active, has_loop) ==
    /\ written < 0
    /\ \/ has_session /\ ~active
       \/ count >= MAX_WRITE_ERRORS
    /\ has_loop

\* What write() on the sink may return for a buffer of n bytes.
WriteResults(n) ==
    {r \in {-1, 0} \cup {k \in {1, n} : k >= 1 /\ k <= n} :
        env.short_writes \/ r \in {-1, n}}

(***************************************************************************)
(* on_stream_process, on the data thread.                                  *)
(***************************************************************************)

\* PW_STREAM_FLAG_RT_PROCESS is passed to pw_stream_connect: the process
\* callback runs on the data thread, not in the main loop.
PW_STREAM_FLAG_RT_PROCESS == TRUE

\* Whether a main-loop callback may be dispatched in the current state: with
\* the process callback on its own thread the main loop does not wait for it.
MainLoopMayDispatch == rtPc = "idle" \/ PW_STREAM_FLAG_RT_PROCESS

\* Lines 739-742: pw_stream_dequeue_buffer.  Buffers flow once a format has
\* been negotiated; the model delivers none after the main loop was quit.
on_stream_process_dequeue ==
    /\ pc = "pw_loop"
    /\ data.stream
    /\ data.width > 0
    /\ pw_running
    /\ rtPc = "idle"
    /\ \E b \in {"NULL", "buffer"} :
         /\ rtPc' = IF b = "NULL" THEN "idle" ELSE "frame"
         /\ last' = [NoFrame EXCEPT !.path = IF b = "NULL" THEN "no_buffer" ELSE "none"]
    /\ UNCHANGED <<conv, leaked, released,
                   env, pc, exit_code, global_app_data, data, session,
                   write_error_count, glib_running, pw_running, sink,
                   consec_failed, frames_since_format, sig_received>>

\* The record of a callback that dequeued d, acquired a and left by `label`.
FrameRecord(d, a, label, path) ==
    [NoFrame EXCEPT
        !.dequeued = TRUE,
        !.queued = QueueBuffer(label),
        !.mmaps = IF a.mapped_data = "addr" THEN 1 ELSE 0,
        !.munmaps = Munmaps(label, a.mapped_data, d.type),
        !.path = path,
        !.type = d.type,
        !.mappable = d.type = "DmaBuf" /\ d.mappable,
        !.imports = a.imports,
        !.imported = a.frame_data = "gl",
        !.mmap_calls = IF a.mapped_data # "NULL" THEN 1 ELSE 0]

\* The return of the callback: the fields it wrote, and the history.
FrameReturn(new_data, count, rec) ==
    /\ data' = new_data
    /\ write_error_count' = count
    /\ last' = rec
    /\ rtPc' = "idle"
    /\ pw_running' = IF rec.quit THEN FALSE ELSE pw_running
    /\ consec_failed' =
         IF rec.wrote
         THEN IF rec.written < 0 THEN consec_failed + 1 ELSE 0
         ELSE consec_failed
    /\ frames_since_format' = Min(frames_since_format + 1, SKIP_FRAMES + 1)
    /\ leaked' = leaked \cup Orphaned(data, new_data)
    /\ UNCHANGED <<conv, released, env, pc, exit_code, global_app_data, session, glib_running,
                   sink, sig_received>>

\* Lines 1110-1135 applied to the value of `written` after the switch.
AfterWrite(d, a, d3, rec, written) ==
    LET count == NextWriteErrorCount(written, write_error_count)
        quit == QuitAfterWrite(written, count, d3.portal_session,
                               session.session_active, d3.loop)
    IN  FrameReturn(d3, count,
                    [rec EXCEPT !.written = written, !.quit = quit])

\* Mutation of SkipFrame: one frame more is skipped.
SkipFrame_OneMore(frame_skip_count) == frame_skip_count < SKIP_FRAMES + 1

\* Mutation of SkipFrame: one frame fewer is skipped.
SkipFrame_OneFewer(frame_skip_count) == frame_skip_count < SKIP_FRAMES - 1

\* Whether a frame is skipped for warm-up (line 917).
SkipFrame(frame_skip_count) == frame_skip_count < SKIP_FRAMES

\* Lines 1009-1108: conversion and sink write of a validated frame.
ConvertAndWrite(d, a, d3) ==
    LET rec == FrameRecord(d, a, "cleanup_map", "convert")
    IN  IF d3.spa_format \in SupportedFormats
        THEN \E conv_ok \in (IF UsesTempBuffer(d3.spa_format) THEN BOOLEAN ELSE {TRUE}) :
             \E written \in WriteResults(d3.conversion_buffer_size) :
                AfterWrite(d, a, d3,
                           [rec EXCEPT !.converted = TRUE, !.wrote = TRUE,
                                       !.write_len = d3.conversion_buffer_size,
                                       !.path = IF conv_ok THEN "convert" ELSE "convert_failed"],
                           written)
        ELSE AfterWrite(d, a, d3, [rec EXCEPT !.path = "unsupported"], -1)

\* Lines 923-1137: the part of the callback guarded by data->v4l2_fd >= 0.
WithSink(d, a, d2) ==
    IF ~d2.conversion_buffer /\ ~d2.color_bars_mode
    THEN \E malloc_ok \in Allocs :
           LET d3 == [d2 EXCEPT !.conversion_buffer_size =
                                    d2.width * d2.height * YUYV_BYTES_PER_PIXEL,
                                !.conversion_buffer = malloc_ok]
           IN  IF ~malloc_ok
               THEN FrameReturn(d3, write_error_count,
                                FrameRecord(d, a, "cleanup_map", "alloc_failed"))
               ELSE \E frame_valid \in BOOLEAN :
                      IF ~frame_valid
                      THEN FrameReturn(d3, write_error_count,
                                       FrameRecord(d, a, "cleanup_map", "invalid"))
                      ELSE ConvertAndWrite(d, a, d3)
    ELSE IF d2.color_bars_mode
    THEN \E written \in WriteResults(d2.conversion_buffer_size) :
           FrameReturn(d2, write_error_count,
                       [FrameRecord(d, a, "cleanup_map", "color_bars") EXCEPT
                           !.wrote = TRUE, !.written = written,
                           !.write_len = d2.conversion_buffer_size])
    ELSE \E frame_valid \in BOOLEAN :
           IF ~frame_valid
           THEN FrameReturn(d2, write_error_count,
                            FrameRecord(d, a, "cleanup_map", "invalid"))
           ELSE ConvertAndWrite(d, a, d2)

\* Lines 744-1146: the callback from the dequeued buffer to
\* pw_stream_queue_buffer.
on_stream_process ==
    /\ rtPc = "frame"
    /\ \E d \in env.buffers :
       \E a \in AcquireOutcomes(d) :
         LET d1 == [data EXCEPT !.gl_buffer = a.gl_buffer,
                                !.gl_buffer_size = a.gl_buffer_size]
         IN  IF a.goto # "none"
             THEN FrameReturn(d1, write_error_count,
                              FrameRecord(d, a, a.goto, "no_frame_data"))
             ELSE LET d2 == [d1 EXCEPT !.stride =
                                ResolveStride(d.chunk.stride, d.chunk.size,
                                              d1.width, d1.height, d1.spa_format)]
                  IN  IF SkipFrame(d2.frame_skip_count)
                      THEN FrameReturn(
                             [d2 EXCEPT !.frame_skip_count = d2.frame_skip_count + 1],
                             write_error_count,
                             FrameRecord(d, a, "cleanup_map", "skipped"))
                      ELSE IF d2.v4l2_fd >= 0
                      THEN WithSink(d, a, d2)
                      ELSE FrameReturn(d2, write_error_count,
                                       FrameRecord(d, a, "cleanup_map", "no_sink"))

(***************************************************************************)
(* Stream callbacks dispatched by the PipeWire main loop.                  *)
(***************************************************************************)

\* What pw_stream may pass to on_stream_param_changed.
ParamEvents ==
    {[kind |-> k, width |-> 0, height |-> 0, format |-> 0] :
        k \in env.params}
    \cup {[kind |-> "format", width |-> w, height |-> h, format |-> f] :
            w \in {x \in env.widths : env.renegotiates \/ data.width = 0},
            h \in env.heights, f \in env.formats}

\* Mutation of ParsesAsFormat: the result of spa_format_video_raw_parse is
\* not checked.
ParsesAsFormat_Unchecked(kind) == kind \in {"format", "unparsable"}

\* Lines 549-627: whether on_stream_param_changed goes on to line 629 with a
\* parsed format: the param is not NULL, its id is SPA_PARAM_Format and
\* spa_format_video_raw_parse succeeded.
ParsesAsFormat(kind) == kind = "format"

\* Mutation of UpdatesSink: the sink format is set for every parsed format.
UpdatesSink_Always(d, ev) == d.v4l2_fd >= 0

\* Line 663: whether the sink format is (re)set for the parsed format `ev`.
UpdatesSink(d, ev) ==
    /\ ~d.format_set \/ (d.width # ev.width \/ d.height # ev.height)
    /\ d.v4l2_fd >= 0

\* Lines 646-699: struct app_data after a Format param was parsed.
ParamChangedData(d, ev, ioctl_ok, realloc_ok) ==
    LET d1 == [d EXCEPT !.width = ev.width, !.height = ev.height,
                        !.spa_format = ev.format,
                        !.stride = ev.width * BytesPerPixel(ev.format)]
    IN  IF UpdatesSink(d, ev) /\ ioctl_ok
        THEN [d1 EXCEPT !.format_set = TRUE,
                        !.frame_skip_count = 0,
                        !.conversion_buffer_size =
                            ev.width * ev.height * YUYV_BYTES_PER_PIXEL,
                        !.conversion_buffer = realloc_ok]
        ELSE d1

on_stream_param_changed ==
    /\ pc = "pw_loop"
    /\ pw_running
    /\ data.stream
    /\ MainLoopMayDispatch
    /\ \E ev \in ParamEvents :
         IF ~ParsesAsFormat(ev.kind)
         THEN /\ last' = [NoFrame EXCEPT !.param = ev.kind]
              /\ UNCHANGED <<data, sink, frames_since_format>>
         ELSE /\ frames_since_format' = 0
              /\ IF UpdatesSink(data, ev)
                 THEN \E ioctl_ok \in BOOLEAN :
                      \E realloc_ok \in (IF ioctl_ok THEN Allocs ELSE {TRUE}) :
                        /\ data' = ParamChangedData(data, ev, ioctl_ok, realloc_ok)
                        /\ sink' = IF ioctl_ok THEN <<ev.width, ev.height>>
                                   ELSE sink
                        /\ last' = [NoFrame EXCEPT
                                      !.param = ev.kind, !.s_fmt = TRUE,
                                      !.allocs = IF ioctl_ok THEN 1 ELSE 0]
                 ELSE /\ data' = ParamChangedData(data, ev, FALSE, FALSE)
                      /\ last' = [NoFrame EXCEPT !.param = ev.kind]
                      /\ UNCHANGED sink
    /\ leaked' = leaked \cup Orphaned(data, data')
    /\ UNCHANGED <<conv, released, env, pc, exit_code, global_app_data, session,
                   write_error_count, glib_running, pw_running, rtPc, consec_failed,
                   sig_received>>

\* Lines 702-729: the state and the error are logged; stream_ready is set in
\* STREAMING.  `last` records whether the event reported an error: an
\* error string, or the state PW_STREAM_STATE_ERROR or
\* PW_STREAM_STATE_UNCONNECTED.
on_stream_state_changed ==
    /\ pc = "pw_loop"
    /\ pw_running
    /\ data.stream
    /\ MainLoopMayDispatch
    /\ \E state \in {"error", "unconnected", "connecting", "paused", "streaming"} :
       \E error \in BOOLEAN :
         /\ data' = IF state = "streaming" THEN [data EXCEPT !.stream_ready = TRUE]
                    ELSE data
         /\ last' = [NoFrame EXCEPT
                       !.stream_error = error \/ state \in {"error", "unconnected"}]
    /\ UNCHANGED <<conv, leaked, released,
                   env, pc, exit_code, global_app_data, session, write_error_count,
                   glib_running, pw_running, sink, rtPc, consec_failed,
                   frames_since_format, sig_received>>

(***************************************************************************)
(* main(): start-up.                                                       *)
(***************************************************************************)

\* Lines 1368-1391: the command line, by the branch it ends in.
ParseArgs ==
    /\ pc = "parse_args"
    /\ \E arg \in env.args :
         /\ data' = [data EXCEPT !.color_bars_mode = (arg = "color_bars")]
         /\ pc' = IF arg \in {"help", "unknown_option"} THEN "exit" ELSE "gl_init"
         /\ exit_code' = IF arg = "help" THEN 0
                         ELSE IF arg = "unknown_option" THEN 1 ELSE exit_code
    /\ last' = NoFrame
    /\ UNCHANGED <<conv, leaked, released,
                   env, global_app_data, session, write_error_count, glib_running,
                   pw_running, sink, rtPc, consec_failed, frames_since_format,
                   sig_received>>

\* Lines 1396-1420: gl_context_create, and the fixed color-bars geometry.
GlInit ==
    /\ pc = "gl_init"
    /\ \E ctx \in env.gl :
         data' = IF data.color_bars_mode
                 THEN [data EXCEPT !.gl_ctx = ctx,
                                   !.width = COLOR_BARS_WIDTH,
                                   !.height = COLOR_BARS_HEIGHT,
                                   !.stride = COLOR_BARS_WIDTH * 4]
                 ELSE [data EXCEPT !.gl_ctx = ctx]
    /\ pc' = "open_sink"
    /\ last' = NoFrame
    /\ UNCHANGED <<conv, leaked, released,
                   env, exit_code, global_app_data, session, write_error_count,
                   glib_running, pw_running, sink, rtPc, consec_failed,
                   frames_since_format, sig_received>>

\* Mutation of AfterSinkOpen: a failed open is not fatal.
AfterSinkOpen_NotFatal(fd, color_bars_mode) ==
    IF color_bars_mode THEN "color_bars_setup" ELSE "portal_setup"

\* Lines 1423-1428: where main goes once setup_v4l2_device returned `fd`.
AfterSinkOpen(fd, color_bars_mode) ==
    IF fd < 0 THEN "cleanup"
    ELSE IF color_bars_mode THEN "color_bars_setup" ELSE "portal_setup"

\* Lines 1155-1164 and 1422-1426: open the sink; failure goes to cleanup.
setup_v4l2_device ==
    /\ pc = "open_sink"
    /\ \E fd \in {IF ok THEN 3 ELSE -1 : ok \in Outcomes} :
         /\ data' = [data EXCEPT !.v4l2_fd = fd]
         /\ pc' = AfterSinkOpen(fd, data.color_bars_mode)
    /\ last' = NoFrame
    /\ UNCHANGED <<conv, leaked, released,
                   env, exit_code, global_app_data, session, write_error_count,
                   glib_running, pw_running, sink, rtPc, consec_failed,
                   frames_since_format, sig_received>>

(***************************************************************************)
(* main(): the color-bars test pattern.                                    *)
(***************************************************************************)

\* Lines 1428-1476: VIDIOC_QUERYCAP, VIDIOC_S_FMT (YUYV, then XRGB32), malloc.
ColorBarsSetup ==
    /\ pc = "color_bars_setup"
    /\ \E querycap_ok \in Outcomes :
         IF ~querycap_ok
         THEN /\ pc' = "cleanup"
              /\ UNCHANGED <<data, sink>>
         ELSE \E set_fmt \in {"yuyv", "xrgb32", "none"} :
              \E malloc_ok \in Outcomes :
                LET using_yuyv == set_fmt = "yuyv"
                IN  /\ data' = [data EXCEPT
                                  !.conversion_buffer_size =
                                      data.width * data.height *
                                          (IF using_yuyv THEN 2 ELSE 4),
                                  !.conversion_buffer = malloc_ok]
                    /\ sink' = IF set_fmt = "none" THEN sink
                               ELSE <<data.width, data.height>>
                    /\ pc' = IF malloc_ok THEN "color_bars_loop" ELSE "cleanup"
    /\ last' = NoFrame
    /\ UNCHANGED <<conv, leaked, released,
                   env, exit_code, global_app_data, session, write_error_count,
                   glib_running, pw_running, rtPc, consec_failed,
                   frames_since_format, sig_received>>

\* Lines 1480-1492: one iteration of while (1); only a failed write breaks.
ColorBarsFrame ==
    /\ pc = "color_bars_loop"
    /\ \E written \in WriteResults(data.conversion_buffer_size) :
         /\ pc' = IF written < 0 THEN "cleanup" ELSE "color_bars_loop"
         /\ last' = [NoFrame EXCEPT !.path = "color_bars", !.wrote = TRUE,
                                    !.written = written,
                                    !.write_len = data.conversion_buffer_size]
    /\ UNCHANGED <<conv, leaked, released,
                   env, exit_code, global_app_data, data, session, write_error_count,
                   glib_running, pw_running, sink, rtPc, consec_failed,
                   frames_since_format, sig_received>>

(***************************************************************************)
(* The portal handshake (portal.c and the portal callbacks of main.c).     *)
(***************************************************************************)

\* A portal_quit_main_loop that leaves the loop running.
portal_quit_main_loop_Ignored(has_session, running) == running

\* portal_quit_main_loop: g_main_loop_quit only if the loop is running.
portal_quit_main_loop(has_session, running) ==
    IF has_session /\ running THEN FALSE ELSE running

\* Lines 1172-1193: portal_session_new and portal_create_session.
setup_pipewire_via_portal ==
    /\ pc = "portal_setup"
    /\ \E r \in (IF env.startup_fails THEN {"no_session", "create_failed", "ok"}
                 ELSE {"ok"}) :
         /\ data' = [data EXCEPT !.portal_session = (r # "no_session")]
         /\ session' = IF r = "no_session" THEN session
                       ELSE [session EXCEPT
                               !.create_session_callback = TRUE,
                               !.request = IF r = "ok" THEN "create" ELSE "none"]
         /\ pc' = IF r = "ok" THEN "portal_run" ELSE "cleanup"
    /\ last' = NoFrame
    /\ UNCHANGED <<conv, leaked, released,
                   env, exit_code, global_app_data, write_error_count, glib_running,
                   pw_running, sink, rtPc, consec_failed, frames_since_format,
                   sig_received>>

\* portal_run_main_loop: g_main_loop_run marks the loop running.
portal_run_main_loop ==
    /\ pc = "portal_run"
    /\ glib_running' = TRUE
    /\ pc' = "portal_loop"
    /\ last' = NoFrame
    /\ UNCHANGED <<conv, leaked, released,
                   env, exit_code, global_app_data, data, session, write_error_count,
                   pw_running, sink, rtPc, consec_failed, frames_since_format,
                   sig_received>>

\* on_pipewire_ready with setup_pipewire_stream: the objects created up to
\* the call that fails ("none": all succeed).
PipewireReadyData(d, fail) ==
    [d EXCEPT
        !.loop = fail # "loop",
        !.context = fail \notin {"loop", "context"},
        !.core = fail \notin {"loop", "context", "core"},
        !.stream = fail \notin {"loop", "context", "core", "stream"},
        !.stream_ready = fail = "none",
        !.portal_ready = fail = "none"]

\* The node ids a Start response can carry.
NodeIds == IF env.startup_fails THEN {41, 42} ELSE {42}

\* A Start response that marks the session active without storing the node
\* id of the stream.
StartedSession_NoNode(s, node_id) ==
    [s EXCEPT !.session_active = TRUE]

\* portal.c lines 437-438: the Start response stores the node id of the first
\* stream and marks the session active.
StartedSession(s, node_id) ==
    [s EXCEPT !.node_id = node_id, !.session_active = TRUE]

\* setup_pipewire_stream line 1212: pw_context_connect_fd takes the
\* descriptor over ("the socket will be closed automatically on disconnect or
\* error"); fail is the call of on_pipewire_ready that fails.
ConnectFd(s, fail) ==
    IF fail \in {"loop", "context"} THEN s
    ELSE [s EXCEPT !.fd_given = TRUE,
                   !.fd_closes = IF fail = "core" THEN s.fd_closes + 1
                                 ELSE s.fd_closes]

\* One more invocation of the completion callbacks in stages.
Invoked(s, stages) ==
    [s EXCEPT !.invoked = [st \in DOMAIN s.invoked |->
                             IF st \in stages THEN s.invoked[st] + 1
                             ELSE s.invoked[st]]]

\* on_request_response: a Response signal for the outstanding request.  The
\* session counts the invocations of each completion callback; last
\* records the completion callback invoked (stage), the request it issued
\* (issued), the node id of the response (node) and the node id handed to
\* on_pipewire_ready (ready_node).
on_request_response ==
    /\ pc = "portal_loop"
    /\ session.request # "none"
    /\ \E response \in (IF env.startup_fails THEN {0, 1} ELSE {0}) :
       \E streams \in (IF session.request = "start"
                       THEN (IF env.startup_fails THEN {"absent", "empty", "one"}
                             ELSE {"one"})
                       ELSE {"absent"}) :
         IF response # 0
         THEN /\ glib_running' = portal_quit_main_loop(TRUE, glib_running)
              /\ session' = [session EXCEPT !.request = "none"]
              /\ last' = [NoFrame EXCEPT !.stage = "failed"]
              /\ UNCHANGED data
         ELSE IF streams = "one"
         THEN \* the Start response: on_session_started, portal_open_pipewire_remote
              \E node_id \in NodeIds :
              \E remote \in (IF env.startup_fails THEN {"failed", "ok"} ELSE {"ok"}) :
              \E fail \in (IF remote = "ok" /\ env.startup_fails
                           THEN {"loop", "context", "core", "stream", "connect", "none"}
                           ELSE {"none"}) :
                /\ session' = [Invoked(IF session.start_session_callback
                                            /\ remote = "ok"
                                         THEN ConnectFd(StartedSession(session, node_id),
                                                        fail)
                                         ELSE StartedSession(session, node_id),
                                         IF ~session.start_session_callback THEN {}
                                         ELSE IF remote = "ok"
                                         THEN {"started", "ready"}
                                         ELSE {"started"}) EXCEPT
                                 !.request = "none",
                                 !.pipewire_fd = IF session.start_session_callback
                                                    /\ remote = "ok"
                                                 THEN 4 ELSE session.pipewire_fd]
                /\ data' = IF session.start_session_callback /\ remote = "ok"
                           THEN PipewireReadyData(data, fail) ELSE data
                /\ glib_running' =
                     IF session.start_session_callback
                     THEN portal_quit_main_loop(TRUE, glib_running)
                     ELSE glib_running
                /\ last' = [NoFrame EXCEPT
                              !.stage = IF ~session.start_session_callback THEN "none"
                                        ELSE IF remote = "ok" THEN "ready"
                                        ELSE "started",
                              !.issued = IF session.start_session_callback
                                         THEN "open" ELSE "none",
                              !.node = node_id,
                              !.ready_node =
                                  IF session.start_session_callback /\ remote = "ok"
                                  THEN StartedSession(session, node_id).node_id
                                  ELSE 0]
         ELSE IF streams = "empty"
         THEN /\ session' = [session EXCEPT !.request = "none"]
              /\ last' = NoFrame
              /\ UNCHANGED <<data, glib_running>>
         ELSE IF session.create_session_callback
         THEN \* on_session_created, portal_select_sources
              \E issued \in Outcomes :
                /\ session' = [Invoked(session, {"created"}) EXCEPT
                                 !.create_session_callback = FALSE,
                                 !.select_sources_callback = TRUE,
                                 !.request = IF issued THEN "select" ELSE "none"]
                /\ glib_running' = IF issued THEN glib_running
                                   ELSE portal_quit_main_loop(TRUE, glib_running)
                /\ last' = [NoFrame EXCEPT !.stage = "created", !.issued = "select"]
                /\ UNCHANGED data
         ELSE IF session.select_sources_callback
         THEN \* on_sources_selected, portal_start_session
              \E issued \in Outcomes :
                /\ session' = [Invoked(session, {"selected"}) EXCEPT
                                 !.select_sources_callback = FALSE,
                                 !.start_session_callback = TRUE,
                                 !.request = IF issued THEN "start" ELSE "none"]
                /\ glib_running' = IF issued THEN glib_running
                                   ELSE portal_quit_main_loop(TRUE, glib_running)
                /\ last' = [NoFrame EXCEPT !.stage = "selected", !.issued = "start"]
                /\ UNCHANGED data
         ELSE /\ session' = [session EXCEPT !.request = "none"]
              /\ last' = NoFrame
              /\ UNCHANGED <<data, glib_running>>
    /\ UNCHANGED <<conv, leaked, released,
                   env, pc, exit_code, global_app_data, write_error_count,
                   pw_running, sink, rtPc, consec_failed, frames_since_format,
                   sig_received>>

\* pw_main_loop_quit: clears the running flag of the loop.
pw_main_loop_quit(has_loop, running) == IF has_loop THEN FALSE ELSE running

\* The portal emits Closed for the session (sharing was stopped from the
\* desktop): the signal is queued on the D-Bus connection, whose callbacks
\* (portal.c lines 151-161) are dispatched by the GLib main context.
PortalEmitsClosed ==
    /\ env.closes
    /\ pc \in {"portal_loop", "after_portal", "pw_loop"}
    /\ session.request \in {"select", "start"} \/ session.session_active
    /\ session.closed = "no"
    /\ session' = [session EXCEPT !.closed = "emitted"]
    /\ last' = NoFrame
    /\ UNCHANGED <<conv, leaked, released,
                   env, pc, exit_code, global_app_data, data, write_error_count,
                   glib_running, pw_running, sink, rtPc, consec_failed,
                   frames_since_format, sig_received>>

\* portal.c on_session_closed with main.c on_portal_session_closed: the
\* Closed signal, dispatched while g_main_loop_run iterates the GLib context
\* (pw_main_loop_run does not iterate it).
on_session_closed ==
    /\ pc = "portal_loop"
    /\ session.closed = "emitted"
    /\ session' = [session EXCEPT !.session_active = FALSE, !.closed = "dispatched"]
    /\ pw_running' = pw_main_loop_quit(data.loop, pw_running)
    /\ glib_running' = portal_quit_main_loop(TRUE, glib_running)
    /\ last' = NoFrame
    /\ UNCHANGED <<conv, leaked, released,
                   env, pc, exit_code, global_app_data, data, write_error_count,
                   sink, rtPc, consec_failed, frames_since_format, sig_received>>

\* g_main_loop_run returns once the loop was quit.
PortalLoopReturn ==
    /\ pc = "portal_loop"
    /\ ~glib_running
    /\ pc' = "after_portal"
    /\ last' = NoFrame
    /\ UNCHANGED <<conv, leaked, released,
                   env, exit_code, global_app_data, data, session, write_error_count,
                   glib_running, pw_running, sink, rtPc, consec_failed,
                   frames_since_format, sig_received>>

\* Lines 1508-1511: pw_main_loop_run (which marks the loop running) if the
\* portal is ready, else cleanup.
pw_main_loop_run ==
    /\ pc = "after_portal"
    /\ IF data.portal_ready /\ data.loop
       THEN pc' = "pw_loop" /\ pw_running' = TRUE
       ELSE pc' = "cleanup" /\ UNCHANGED pw_running
    /\ last' = NoFrame
    /\ UNCHANGED <<conv, leaked, released,
                   env, exit_code, global_app_data, data, session, write_error_count,
                   glib_running, sink, rtPc, consec_failed, frames_since_format,
                   sig_received>>

\* pw_main_loop_run returns once the loop was quit.
PwLoopReturn ==
    /\ pc = "pw_loop"
    /\ ~pw_running
    /\ pc' = "cleanup"
    /\ last' = NoFrame
    /\ UNCHANGED <<conv, leaked, released,
                   env, exit_code, global_app_data, data, session, write_error_count,
                   glib_running, pw_running, sink, rtPc, consec_failed,
                   frames_since_format, sig_received>>

(***************************************************************************)
(* Shutdown.                                                               *)
(***************************************************************************)

\* What signal_handler reads through global_app_data: the fields of main's
\* struct app_data while main runs; once main has returned (lines 1383 and
\* 1389 return without clearing global_app_data) the struct is dead and the
\* reads may give anything.
SignalReads ==
    IF pc # "exit"
    THEN {[loop |-> data.loop, portal_session |-> data.portal_session]}
    ELSE [loop : BOOLEAN, portal_session : BOOLEAN]

\* Lines 68-80: signal_handler; the handlers stay installed until the process
\* ends.  last records the quit calls it makes (sig_loop: pw_main_loop_quit,
\* sig_session: portal_quit_main_loop).
signal_handler ==
    /\ env.signals
    /\ sig_received' = TRUE
    /\ IF global_app_data
       THEN \E seen \in SignalReads :
              /\ last' = [NoFrame EXCEPT !.signalled = TRUE,
                                         !.sig_loop = seen.loop,
                                         !.sig_session = seen.portal_session]
              /\ pw_running' = IF pc # "exit"
                               THEN pw_main_loop_quit(seen.loop, pw_running)
                               ELSE pw_running
              /\ glib_running' = IF pc # "exit"
                                 THEN portal_quit_main_loop(seen.portal_session,
                                                            glib_running)
                                 ELSE glib_running
       ELSE /\ last' = [NoFrame EXCEPT !.signalled = TRUE]
            /\ UNCHANGED <<pw_running, glib_running>>
    /\ UNCHANGED <<conv, leaked, released,
                   env, pc, exit_code, global_app_data, data, session,
                   write_error_count, sink, rtPc, consec_failed,
                   frames_since_format>>

\* Lines 1517-1535: the guard of each release call of cleanup.
CleanupReleases(d, r) ==
    IF r = "v4l2_fd" THEN d.v4l2_fd >= 0
    ELSE IF r = "gl_ctx" THEN d.gl_ctx # "NULL"
    ELSE d[r]

\* The close calls cleanup makes on the transport descriptor: one by
\* pw_core_disconnect (lines 1520-1521) for a core that was connected on it,
\* one by portal_session_free (portal.c lines 67-69) for a session that still
\* holds its number.
CleanupFdCloses(d, s) ==
    (IF d.core /\ s.fd_given THEN 1 ELSE 0)
    + (IF d.portal_session /\ s.pipewire_fd >= 0 THEN 1 ELSE 0)

\* Lines 1514-1543: the cleanup section; pw_stream_destroy waits for the
\* process callback in flight.  Each release call is recorded; the fields of
\* struct app_data are left as they are.
Cleanup ==
    /\ pc = "cleanup"
    /\ rtPc = "idle"
    /\ global_app_data' = FALSE
    /\ released' = [r \in Resources |->
                      released[r] + (IF CleanupReleases(data, r) THEN 1 ELSE 0)]
    /\ session' = [session EXCEPT
                     !.fd_closes = session.fd_closes + CleanupFdCloses(data, session)]
    /\ pc' = "exit"
    /\ exit_code' = 0
    /\ last' = NoFrame
    /\ UNCHANGED <<conv, leaked, env, data, write_error_count, glib_running,
                   pw_running, sink, rtPc, consec_failed, frames_since_format,
                   sig_received>>

Next ==
    \/ ParseArgs
    \/ GlInit
    \/ setup_v4l2_device
    \/ ColorBarsSetup
    \/ ColorBarsFrame
    \/ setup_pipewire_via_portal
    \/ portal_run_main_loop
    \/ on_request_response
    \/ PortalEmitsClosed
    \/ on_session_closed
    \/ PortalLoopReturn
    \/ pw_main_loop_run
    \/ on_stream_param_changed
    \/ on_stream_state_changed
    \/ on_stream_process_dequeue
    \/ on_stream_process
    \/ PwLoopReturn
    \/ signal_handler
    \/ Cleanup

Spec == Init /\ [][Next]_vars

(***************************************************************************)
(* The program under fair scheduling, in the environment that delivers     *)
(* signals: the main thread and the data thread keep taking the steps they *)
(* can take, and the portal and the transport keep delivering the events   *)
(* they can deliver.  Signals are under no obligation to arrive.           *)
(***************************************************************************)
FairInit == Init /\ env.signals

Fairness ==
    /\ WF_vars(ParseArgs) /\ WF_vars(GlInit) /\ WF_vars(setup_v4l2_device)
    /\ WF_vars(ColorBarsSetup) /\ WF_vars(ColorBarsFrame)
    /\ WF_vars(setup_pipewire_via_portal) /\ WF_vars(portal_run_main_loop)
    /\ WF_vars(on_request_response) /\ WF_vars(on_session_closed)
    /\ WF_vars(PortalLoopReturn) /\ WF_vars(pw_main_loop_run)
    /\ WF_vars(on_stream_param_changed) /\ WF_vars(on_stream_state_changed)
    /\ WF_vars(on_stream_process_dequeue) /\ WF_vars(on_stream_process)
    /\ WF_vars(PwLoopReturn) /\ WF_vars(Cleanup)

FairSpec == FairInit /\ [][Next]_vars /\ Fairness

(***************************************************************************)
(* convert_bgrx_to_yuyv (lines 284-347), followed loop iteration by loop   *)
(* iteration for the offsets it reads from src and writes to dst.  The     *)
(* caller passes a dst of width*height*2 bytes and a src whose rows are    *)
(* src_stride >= width*4 bytes apart.                                      *)
(***************************************************************************)

\* The colours of the source frames, as the four bytes [B][G][R][X] of a
\* BGRx pixel.
Palette ==
    << [b |-> 0, g |-> 0, r |-> 0, x |-> 255],
       [b |-> 255, g |-> 255, r |-> 255, x |-> 0],
       [b |-> 0, g |-> 0, r |-> 255, x |-> 255],
       [b |-> 0, g |-> 255, r |-> 0, x |-> 0],
       [b |-> 255, g |-> 0, r |-> 0, x |-> 255],
       [b |-> 128, g |-> 128, r |-> 128, x |-> 1],
       [b |-> 1, g |-> 2, r |-> 3, x |-> 7],
       [b |-> 255, g |-> 0, r |-> 255, x |-> 254] >>

\* The source frame of a call `c`: the pixel at column x of row y, the
\* colours following each other in the palette from `seed` in steps of `step`.
SrcPixel(c, x, y) ==
    Palette[((c.seed + (y * c.width + x) * c.step) % Len(Palette)) + 1]

\* The byte at offset o of src: a channel of a pixel, or a byte of the row
\* padding.
SrcByte(c, o) ==
    LET y == o \div c.src_stride
        within == o % c.src_stride
        px == SrcPixel(c, within \div 4, y)
    IN  IF within >= c.width * 4 THEN 170
        ELSE IF within % 4 = 0 THEN px.b
        ELSE IF within % 4 = 1 THEN px.g
        ELSE IF within % 4 = 2 THEN px.r
        ELSE px.x

\* The calls followed: every geometry within the bounds, rows tightly packed
\* or padded by one pixel, every frame of the palette, and a dst of
\* width*height*2 bytes that holds zeros or 0xFF bytes before the call.
Conversions ==
    {[NoConversion EXCEPT !.width = w, !.height = h, !.src_stride = w * 4 + pad,
                          !.at = "rows", !.seed = seed, !.step = step,
                          !.dst = [i \in 1..(w * h * 2) |-> fill],
                          !.calls = 1] :
        w \in 0..MaxConvWidth, h \in 0..MaxConvHeight, pad \in {0, 4},
        seed \in 0..(Len(Palette) - 1), step \in 0..(Len(Palette) - 1),
        fill \in {0, 255}}

ConvInit ==
    /\ env = EnvScenario
    /\ InitPipeline
    /\ conv \in Conversions

\* Lines 289-291: for (y ...) with y < height: the row pointers are set.
convert_row_begin ==
    /\ conv.at = "rows"
    /\ conv.y < conv.height
    /\ conv' = [conv EXCEPT !.at = "pairs", !.x = 0,
                            !.dst_row = conv.y * conv.width * 2]
    /\ UNCHANGED <<env, pc, exit_code, global_app_data, data, session,
                   write_error_count, glib_running, pw_running, sink, rtPc, last,
                   consec_failed, frames_since_format, sig_received, leaked,
                   released>>

\* The source offsets read for the pair at column x of row y (lines 298-315):
\* bytes 0..2 of px0, and of px1 if x + 1 < width.
PairReads(c) ==
    LET src_row == c.y * c.src_stride
        px0 == src_row + c.x * 4
        px1 == src_row + (c.x + 1) * 4
    IN  {<<c.y, px0 + i>> : i \in 0..2}
        \cup (IF c.x + 1 < c.width THEN {<<c.y, px1 + i>> : i \in 0..2} ELSE {})

\* The destination offsets written for a pair (lines 341-344): four bytes
\* through dst_row++.
PairWrites(c) == {c.dst_row + i : i \in 0..3}

\* Lines 335-338: clamp to [0, 255].
Clamp(v) == IF v < 0 THEN 0 ELSE IF v > 255 THEN 255 ELSE v

\* >> 8 of an int (lines 323-332): the arithmetic shift of the compilers the
\* program builds with, rounding towards minus infinity.
Shr8(v) == v \div 256

\* Mutation of ChromaAverage: the chroma is taken from the first pixel alone.
ChromaAverage_FirstOnly(s0, s1) == s0

\* Lines 327-329: the integer mean of the two samples of a channel.
ChromaAverage(s0, s1) == (s0 + s1) \div 2

\* Lines 323-338: the bytes [Y0, U, Y1, V] of a pair with samples
\* (b0, g0, r0) and (b1, g1, r1).
PairBytes(b0, g0, r0, b1, g1, r1) ==
    LET y0 == Shr8(77 * r0 + 150 * g0 + 29 * b0)
        y1 == Shr8(77 * r1 + 150 * g1 + 29 * b1)
        ravg == ChromaAverage(r0, r1)
        gavg == ChromaAverage(g0, g1)
        bavg == ChromaAverage(b0, b1)
        u == Shr8(-38 * ravg - 74 * gavg + 112 * bavg) + 128
        v == Shr8(112 * ravg - 94 * gavg - 18 * bavg) + 128
    IN  <<Clamp(y0), Clamp(u), Clamp(y1), Clamp(v)>>

\* Mutation of SecondSample: the column after the last one is read.
SecondSample_NoEdgeCheck(c, px0, i) == SrcByte(c, px0 + 4 + i)

\* Lines 305-315: channel i of the second pixel of the pair whose first
\* pixel is at offset px0: read from px1 if x + 1 < width, else the first
\* pixel's.
SecondSample(c, px0, i) ==
    IF c.x + 1 < c.width THEN SrcByte(c, px0 + 4 + i) ELSE SrcByte(c, px0 + i)

\* Lines 298-344: the four bytes written for the pair at column x of row y.
ConvertPair(c) ==
    LET px0 == c.y * c.src_stride + c.x * 4
    IN  PairBytes(SrcByte(c, px0), SrcByte(c, px0 + 1), SrcByte(c, px0 + 2),
                  SecondSample(c, px0, 0), SecondSample(c, px0, 1),
                  SecondSample(c, px0, 2))

\* dst after the four bytes `bytes` were stored from offset c.dst_row on;
\* only the width*height*2 bytes of the buffer are dst.
StoreDst(c, bytes) ==
    [i \in 1..Len(c.dst) |->
        IF i - 1 >= c.dst_row /\ i - 1 < c.dst_row + 4
        THEN bytes[i - c.dst_row] ELSE c.dst[i]]

\* The stores of a pair that fall past the end of dst, as <<offset, byte>>.
StoreBeyond(c, bytes) ==
    {<<c.dst_row + i, bytes[i + 1]>> : i \in {k \in 0..3 : c.dst_row + k >= Len(c.dst)}}

\* Lines 293-345: one iteration of for (x ...; x += 2).
convert_pair ==
    /\ conv.at = "pairs"
    /\ conv.x < conv.width
    /\ conv' = [conv EXCEPT !.src_read = conv.src_read \cup PairReads(conv),
                            !.dst_written = conv.dst_written \cup PairWrites(conv),
                            !.dst = StoreDst(conv, ConvertPair(conv)),
                            !.beyond = conv.beyond
                                          \cup StoreBeyond(conv, ConvertPair(conv)),
                            !.dst_row = conv.dst_row + 4,
                            !.x = conv.x + 2]
    /\ UNCHANGED <<env, pc, exit_code, global_app_data, data, session,
                   write_error_count, glib_running, pw_running, sink, rtPc, last,
                   consec_failed, frames_since_format, sig_received, leaked,
                   released>>

\* Line 293 with x >= width, then y++ of line 289.
convert_row_end ==
    /\ conv.at = "pairs"
    /\ conv.x >= conv.width
    /\ conv' = [conv EXCEPT !.at = "rows", !.y = conv.y + 1]
    /\ UNCHANGED <<env, pc, exit_code, global_app_data, data, session,
                   write_error_count, glib_running, pw_running, sink, rtPc, last,
                   consec_failed, frames_since_format, sig_received, leaked,
                   released>>

\* Line 289 with y >= height: the function returns.
convert_return ==
    /\ conv.at = "rows"
    /\ conv.y >= conv.height
    /\ conv' = [conv EXCEPT !.at = "returned"]
    /\ UNCHANGED <<env, pc, exit_code, global_app_data, data, session,
                   write_error_count, glib_running, pw_running, sink, rtPc, last,
                   consec_failed, frames_since_format, sig_received, leaked,
                   released>>

ConvNext ==
    \/ convert_row_begin
    \/ convert_pair
    \/ convert_row_end
    \/ convert_return

ConvSpec == ConvInit /\ [][ConvNext]_vars

(***************************************************************************)
(* The helpers of the frame path that are functions of their arguments,    *)
(* each followed as one call: `conv` holds the function, its arguments and, *)
(* once the call was made, its result.                                     *)
(***************************************************************************)

\* The variables of the pipeline, which a call of a helper leaves alone.
pipeline_vars ==
    <<env, pc, exit_code, global_app_data, data, session, write_error_count,
      glib_running, pw_running, sink, rtPc, last, consec_failed,
      frames_since_format, sig_received, leaked, released>>

\* The stride resolutions followed: chunk->stride (an int32_t) from -1 up to
\* one pixel of padding on the widest row, chunk->size over the same range,
\* every width and height within the bounds, a 32-bit and a 24-bit layout.
StrideCalls ==
    {[fn |-> "resolve_stride", at |-> "call", chunk_stride |-> cs, chunk_size |-> sz,
      width |-> w, height |-> h, spa_format |-> f, result |-> 0] :
        cs \in -1..(4 * MaxConvWidth + 4), sz \in 0..(4 * MaxConvWidth + 4),
        w \in 0..MaxConvWidth, h \in 0..MaxConvHeight,
        f \in {SPA_VIDEO_FORMAT_BGRx, SPA_VIDEO_FORMAT_RGB}}

\* Lines 873-894 of on_stream_process.
resolve_stride ==
    /\ conv.fn = "resolve_stride" /\ conv.at = "call"
    /\ conv' = [conv EXCEPT
                  !.at = "returned",
                  !.result = ResolveStride(conv.chunk_stride, conv.chunk_size,
                                           conv.width, conv.height,
                                           conv.spa_format)]
    /\ UNCHANGED pipeline_vars

\* The frames handed to the depadding step of on_stream_process: every
\* geometry within the bounds for a 32-bit and a 24-bit layout, a resolved
\* stride from the packed row up to one 32-bit pixel of padding, and frame
\* memory whose byte at offset o is (seed + o) mod 256.
PackCalls ==
    {[fn |-> "pack", at |-> "call", width |-> w, height |-> h,
      spa_format |-> f, actual_stride |-> w * BytesPerPixel(f) + pad, seed |-> sd,
      packed_buffer |-> <<>>, allocated |-> FALSE, conversion_src |-> "none",
      conversion_stride |-> 0] :
        w \in 0..MaxConvWidth, h \in 0..MaxConvHeight,
        f \in {SPA_VIDEO_FORMAT_BGRx, SPA_VIDEO_FORMAT_RGB}, pad \in 0..4,
        sd \in {0, 200}}

\* The byte of the mapped frame at an offset.
FrameByte(c, o) == (c.seed + o) % 256

\* memcpy(dst_line, src_line, n) with src_line = src + y * src_stride.
CopyLine(c, y, src_stride, n) == [i \in 1..n |-> FrameByte(c, y * src_stride + (i - 1))]

RECURSIVE CopyLines(_, _, _, _, _)
\* The copy loop of create_packed_buffer from row y on.
CopyLines(c, y, height, src_stride, packed_stride) ==
    IF y >= height THEN <<>>
    ELSE CopyLine(c, y, src_stride, packed_stride)
             \o CopyLines(c, y + 1, height, src_stride, packed_stride)

\* Mutation of create_packed_buffer: rows are read at the packed pitch.
create_packed_buffer_PackedPitch(c, width, height, src_stride, bytes_per_pixel) ==
    LET packed_stride == width * bytes_per_pixel
    IN  CopyLines(c, 0, height, packed_stride, packed_stride)

\* create_packed_buffer once malloc returned memory: the copied bytes.
create_packed_buffer(c, width, height, src_stride, bytes_per_pixel) ==
    LET packed_stride == width * bytes_per_pixel
    IN  CopyLines(c, 0, height, src_stride, packed_stride)

\* Lines 1009-1027 of on_stream_process: the source and the stride handed
\* to the conversion.  malloc either returns memory or NULL.
pack_frame ==
    /\ conv.fn = "pack" /\ conv.at = "call"
    /\ LET local_bytes_per_pixel == BytesPerPixel(conv.spa_format)
           expected_stride == conv.width * local_bytes_per_pixel
       IN  IF conv.actual_stride > expected_stride
           THEN \E packed \in BOOLEAN :
                   conv' = IF packed
                           THEN [conv EXCEPT
                                   !.at = "returned",
                                   !.allocated = TRUE,
                                   !.packed_buffer =
                                       create_packed_buffer(conv, conv.width, conv.height,
                                                            conv.actual_stride,
                                                            local_bytes_per_pixel),
                                   !.conversion_src = "packed_buffer",
                                   !.conversion_stride = expected_stride]
                           ELSE [conv EXCEPT
                                   !.at = "returned",
                                   !.conversion_src = "frame_data",
                                   !.conversion_stride = conv.actual_stride]
           ELSE conv' = [conv EXCEPT
                           !.at = "returned",
                           !.conversion_src = "frame_data",
                           !.conversion_stride = conv.actual_stride]
    /\ UNCHANGED pipeline_vars

\* The frames handed to validate_frame_data are black except for one
\* rectangular block of one colour.  The geometries cover the thresholds of
\* the two sampling steps, a step of two in each direction, and the
\* geometry of the end-to-end scenario.
FrameWidths == {0, 1, 10, MaxFrameWidth, 2 * MaxFrameWidth, COLOR_BARS_WIDTH}

FrameHeights == {0, 1, 10, MaxFrameHeight, 2 * MaxFrameHeight + 2, COLOR_BARS_HEIGHT}

NoBlock == [x |-> 0, y |-> 0, w |-> 0, h |-> 0]

Saturated == <<255, 255, 255, 255>>

\* The blocks of exactly a tenth of the frame area: every shape, at every
\* position for the frames of at most ten rows and at the four corners for
\* the larger ones.
TenthBlocks(w, h) ==
    LET fits(bw) == /\ (w * h) % (10 * bw) = 0
                    /\ (w * h) \div (10 * bw) \in 1..h
        corners == w > MaxFrameWidth \/ h > 10
    IN  UNION {LET bh == (w * h) \div (10 * bw)
               IN  {[x |-> bx, y |-> by, w |-> bw, h |-> bh] :
                       bx \in (IF corners THEN {0, w - bw} ELSE 0..(w - bw)),
                       by \in (IF corners THEN {0, h - bh} ELSE 0..(h - bh))} :
               bw \in {d \in 1..w : fits(d)}}

\* Single pixels, single rows, single columns and the whole frame, at the
\* corners.
SmallBlocks(w, h) ==
    {[x |-> q[1], y |-> q[2], w |-> q[3], h |-> q[4]] :
        q \in {r \in {0, w - 1} \X {0, h - 1} \X {1, w} \X {1, h} :
                  /\ r[1] >= 0 /\ r[2] >= 0 /\ r[3] >= 1 /\ r[4] >= 1
                  /\ r[1] + r[3] <= w /\ r[2] + r[4] <= h}}

\* The colours of a block: fully saturated, a single non-zero colour byte,
\* and black with a non-zero fourth byte.
BlockColours == {Saturated, <<0, 0, 1, 0>>, <<0, 0, 0, 255>>}

ValidateCall(w, h, f, pad, block, colour) ==
    [fn |-> "validate", at |-> "call", width |-> w, height |-> h, spa_format |-> f,
     stride |-> w * BytesPerPixel(f) + pad, block |-> block, colour |-> colour,
     non_black_count |-> 0, total_pixels_checked |-> 0, frame_valid |-> FALSE]

ValidateCalls ==
    UNION {{ValidateCall(g[1], g[2], SPA_VIDEO_FORMAT_BGRx, 0, b, Saturated) :
               b \in TenthBlocks(g[1], g[2])} \cup
           {ValidateCall(g[1], g[2], SPA_VIDEO_FORMAT_BGRx, 0, b, colour) :
               b \in SmallBlocks(g[1], g[2]) \cup {NoBlock}, colour \in BlockColours} \cup
           {ValidateCall(g[1], g[2], t[1], t[2], b, Saturated) :
               t \in {<<SPA_VIDEO_FORMAT_BGRx, 4>>, <<SPA_VIDEO_FORMAT_RGB, 0>>,
                      <<SPA_VIDEO_FORMAT_RGB, 4>>},
               b \in SmallBlocks(g[1], g[2]) \cup {NoBlock}} :
           g \in FrameWidths \X FrameHeights}

\* The byte of the mapped frame at an offset: a colour byte of the pixel the
\* offset falls in, or a non-zero byte of row padding.
FrameMemory(c, o) ==
    LET bpp == BytesPerPixel(c.spa_format)
        y == o \div c.stride
        r == o % c.stride
        x == r \div bpp
    IN  IF r >= c.width * bpp THEN 170
        ELSE IF /\ x >= c.block.x /\ x < c.block.x + c.block.w
                /\ y >= c.block.y /\ y < c.block.y + c.block.h
        THEN c.colour[(r % bpp) + 1]
        ELSE 0

\* The test of one sampled pixel (lines 421-425).
NonBlack(c, x, y) ==
    LET pixel == y * c.stride + x * BytesPerPixel(c.spa_format)
    IN  \/ FrameMemory(c, pixel) # 0
        \/ FrameMemory(c, pixel + 1) # 0
        \/ FrameMemory(c, pixel + 2) # 0

\* The limit of total_pixels_checked in both loop conditions.
MAX_SAMPLES == 1000

\* The iterations x = 0, x_step, ... of the inner loop while x < width.
ColumnsPerRow(c, x_step) == (c.width + x_step - 1) \div x_step

\* total_pixels_checked when the outer loop tests its condition for row y:
\* every earlier row added its columns until the limit was reached.
CheckedBefore(c, y, y_step, x_step) ==
    LET n == (y \div y_step) * ColumnsPerRow(c, x_step)
    IN  IF n < MAX_SAMPLES THEN n ELSE MAX_SAMPLES

\* Mutation of SampledColumns: the inner loop does not test the limit.
SampledColumns_Unlimited(c, x_step, checked) ==
    {k * x_step : k \in 0..(ColumnsPerRow(c, x_step) - 1)}

\* The columns the inner loop visits in one row entered with `checked`
\* pixels counted: x = 0, x_step, ... while x < width and
\* total_pixels_checked < 1000.
SampledColumns(c, x_step, checked) ==
    {k * x_step : k \in {j \in 0..(ColumnsPerRow(c, x_step) - 1) : checked + j < MAX_SAMPLES}}

\* The rows the outer loop visits: y = 0, y_step, ... while y < height and
\* total_pixels_checked < 1000.
SampledRows(c, y_step, x_step) ==
    {y \in {k * y_step : k \in 0..((c.height - 1) \div y_step)} :
        CheckedBefore(c, y, y_step, x_step) < MAX_SAMPLES}

\* The pixels the two loops visit.
SampledPixels(c, y_step, x_step) ==
    UNION {{<<x, y>> : x \in SampledColumns(c, x_step, CheckedBefore(c, y, y_step, x_step))} :
           y \in SampledRows(c, y_step, x_step)}

\* validate_frame_data.  The quotient of the two counts is compared as a
\* double with 0.01: with at most 1000 samples it exceeds 0.01 exactly when
\* 100 * non_black_count > total_pixels_checked, and the quotient 0/0 of an
\* empty sample is a NaN, which exceeds nothing.
validate_frame_data ==
    /\ conv.fn = "validate" /\ conv.at = "call"
    /\ LET y_step == IF conv.height > 100 THEN conv.height \div 100 ELSE 1
           x_step == IF conv.width > 10 THEN conv.width \div 10 ELSE 1
           pixels == SampledPixels(conv, y_step, x_step)
           non_black_count == Cardinality({p \in pixels : NonBlack(conv, p[1], p[2])})
           total_pixels_checked == Cardinality(pixels)
       IN  conv' = [conv EXCEPT
                      !.at = "returned",
                      !.non_black_count = non_black_count,
                      !.total_pixels_checked = total_pixels_checked,
                      !.frame_valid = /\ total_pixels_checked > 0
                                      /\ 100 * non_black_count > total_pixels_checked]
    /\ UNCHANGED pipeline_vars

CallInit ==
    /\ env = EnvScenario
    /\ InitPipeline
    /\ conv \in StrideCalls \cup PackCalls

CallNext ==
    \/ resolve_stride
    \/ pack_frame

CallSpec == CallInit /\ [][CallNext]_vars

FilterInit ==
    /\ env = EnvScenario
    /\ InitPipeline
    /\ conv \in ValidateCalls

FilterNext == validate_frame_data

FilterSpec == FilterInit /\ [][FilterNext]_vars

(***************************************************************************)
(* The conversion switch of on_stream_process on frames of one solid       *)
(* colour, for every supported layout, called twice on the same frame.     *)
(* The converters other than convert_bgrx_to_yuyv call libyuv, whose       *)
(* format names give the byte order of a little-endian word: its ARGB is   *)
(* B, G, R, A in memory, its RGBA is A, B, G, R, its BGRA is A, R, G, B,   *)
(* its ABGR is R, G, B, A and its RGB24 is B, G, R.                        *)
(***************************************************************************)

\* The bytes in memory of a pixel of colour <<R, G, B>> with the alpha or
\* padding byte X, by SPA layout (the layouts named at lines 1032-1095).
SourcePixel(spa_format, C, X) ==
    CASE spa_format \in {7, 11} -> <<C[1], C[2], C[3], X>>
      [] spa_format \in {8, 12} -> <<C[3], C[2], C[1], X>>
      [] spa_format \in {9, 13} -> <<X, C[1], C[2], C[3]>>
      [] spa_format \in {10, 14} -> <<X, C[3], C[2], C[1]>>
      [] spa_format = 15 -> <<C[1], C[2], C[3]>>
      [] spa_format = 16 -> <<C[3], C[2], C[1]>>

\* libyuv RGBAToARGB, BGRAToARGB, ABGRToARGB and RGB24ToARGB on the bytes of
\* one pixel: the result is libyuv ARGB, B, G, R, A in memory.
RGBAToARGB(px) == <<px[2], px[3], px[4], px[1]>>

BGRAToARGB(px) == <<px[4], px[3], px[2], px[1]>>

ABGRToARGB(px) == <<px[3], px[2], px[1], px[4]>>

RGB24ToARGB(px) == <<px[1], px[2], px[3], 255>>

\* libyuv ARGBToYUY2 on a pair of equal pixels given as B, G, R, A: the
\* bytes [Y0, U, Y1, V] of its studio-range BT.601 rows.
ARGBToYUY2(px) ==
    LET b == px[1]
        g == px[2]
        r == px[3]
        y == Shr8(66 * r + 129 * g + 25 * b + 4224)
        u == Shr8(112 * b - 74 * g - 38 * r + 32896)
        v == Shr8(112 * r - 94 * g - 18 * b + 32896)
    IN  <<Clamp(y), Clamp(u), Clamp(y), Clamp(v)>>

\* The bytes [Y0, U, Y1, V] the converter selected at lines 1031-1103
\* produces for a pair of pixels with the bytes px.
ConvertSolidPair(spa_format, px) ==
    CASE spa_format \in {7, 11} -> ARGBToYUY2(RGBAToARGB(px))
      [] spa_format = 8 -> PairBytes(px[1], px[2], px[3], px[1], px[2], px[3])
      [] spa_format \in {9, 13} -> ARGBToYUY2(px)
      [] spa_format \in {10, 14} -> ARGBToYUY2(ABGRToARGB(px))
      [] spa_format = 12 -> ARGBToYUY2(BGRAToARGB(px))
      [] spa_format \in {15, 16} -> ARGBToYUY2(RGB24ToARGB(px))

\* The colours followed and the alpha or padding bytes.
Levels == {0, 128, 255}

SolidCalls ==
    {[fn |-> "convert", at |-> "call", spa_format |-> f, width |-> w, height |-> h,
      colour |-> <<r, g, b>>, pad |-> X, calls |-> 0, converted |-> FALSE,
      dst |-> <<>>, first |-> <<>>] :
        f \in SupportedFormats, w \in {k \in 2..MaxConvWidth : k % 2 = 0},
        h \in 1..MaxHeight, r \in Levels, g \in Levels, b \in Levels,
        X \in {0, 255}}

\* The outcomes of the malloc of temp_argb (lines 222, 255, 367, 514): the
\* converters without a temporary buffer always convert.
TempAllocations(spa_format) ==
    IF UsesTempBuffer(spa_format) THEN BOOLEAN ELSE {TRUE}

\* One conversion of the frame by the switch at lines 1031-1103 into the
\* scratch buffer, which holds `fill` in every byte before the call.  A
\* converter whose temporary buffer cannot be allocated returns without
\* writing the scratch buffer.
convert_frame ==
    /\ conv.fn = "convert" /\ conv.at \in {"call", "returned"} /\ conv.calls < 2
    /\ \E fill \in {0, 255}, allocated \in TempAllocations(conv.spa_format) :
          LET pair == ConvertSolidPair(conv.spa_format,
                                       SourcePixel(conv.spa_format, conv.colour, conv.pad))
              size == conv.width * conv.height * YUYV_BYTES_PER_PIXEL
              dst == [i \in 1..size |-> IF allocated THEN pair[((i - 1) % 4) + 1] ELSE fill]
          IN  conv' = [conv EXCEPT
                         !.at = "returned",
                         !.calls = conv.calls + 1,
                         !.converted = allocated,
                         !.dst = dst,
                         !.first = IF conv.calls = 0 THEN dst ELSE conv.first]
    /\ UNCHANGED pipeline_vars

LayoutInit ==
    /\ env = EnvScenario
    /\ InitPipeline
    /\ conv \in SolidCalls

LayoutNext == convert_frame

LayoutSpec == LayoutInit /\ [][LayoutNext]_vars

(***************************************************************************)
(* gl_import_dma_buffer, followed call by call against one GL context:     *)
(* the EGL images and textures alive and the framebuffer bound.            *)
(***************************************************************************)

\* The name glGenFramebuffers gave ctx->framebuffer in gl_context_create.
CTX_FRAMEBUFFER == 1

\* The context after gl_context_create and before the first import: no
\* image, no texture, the default framebuffer bound.
ImportCalls ==
    {[fn |-> "import", at |-> "idle", ctx |-> c, calls |-> 0, ret |-> "none",
      result |-> FALSE, images |-> 0, textures |-> 0, framebuffer_binding |-> 0,
      images_before |-> 0, textures_before |-> 0,
      created |-> 0, destroyed |-> 0,
      width |-> 0, height |-> 0, out_buffer_size |-> 0] :
        c \in {"NULL", "no_import", "import"}}

\* A return of the call with the given result.
ImportReturn(c, path, result) ==
    [c EXCEPT !.at = "idle", !.ret = path, !.result = result, !.calls = c.calls + 1]

\* Mutation of ImportRelease: the texture is not deleted.
ImportRelease_KeepsTexture(c) ==
    [c EXCEPT !.framebuffer_binding = 0,
              !.images = c.images - 1, !.destroyed = c.destroyed + 1]

\* glBindFramebuffer(GL_FRAMEBUFFER, 0); glDeleteTextures(1, &texture);
\* eglDestroyImageKHR(egl_image) (lines 264-266, 276-278, 287-289, 294-296).
ImportRelease(c) ==
    [c EXCEPT !.framebuffer_binding = 0,
              !.textures = c.textures - 1,
              !.images = c.images - 1, !.destroyed = c.destroyed + 2]

\* Lines 203-211: the argument checks and eglMakeCurrent.
gl_import_begin ==
    /\ conv.fn = "import" /\ conv.at = "idle" /\ conv.calls < MaxImports
    /\ \E dma_fd \in {-1, 5}, out_buffer \in BOOLEAN, current \in BOOLEAN,
          w \in 1..MaxWidth, h \in 1..MaxHeight,
          size \in {0, 4 * MaxWidth * MaxHeight} :
          LET c == [conv EXCEPT !.width = w, !.height = h, !.out_buffer_size = size,
                                !.images_before = conv.images,
                                !.textures_before = conv.textures,
                                !.created = 0, !.destroyed = 0]
          IN  conv' = IF conv.ctx # "import" \/ dma_fd < 0 \/ ~out_buffer
                      THEN ImportReturn(c, "rejected", FALSE)
                      ELSE IF ~current
                      THEN ImportReturn(c, "not_current", FALSE)
                      ELSE [c EXCEPT !.at = "create_image"]
    /\ UNCHANGED pipeline_vars

\* Lines 224-234: eglCreateImageKHR.
gl_import_create_image ==
    /\ conv.fn = "import" /\ conv.at = "create_image"
    /\ \E egl_image \in BOOLEAN :
          conv' = IF ~egl_image
                  THEN ImportReturn(conv, "image_failed", FALSE)
                  ELSE [conv EXCEPT !.at = "bind_texture",
                                    !.images = conv.images + 1,
                                    !.created = conv.created + 1]
    /\ UNCHANGED pipeline_vars

\* Lines 237-254: glGenTextures, glBindTexture, glEGLImageTargetTexture2DOES.
\* On an error the texture and the image are released; no framebuffer was
\* bound by this call.
gl_import_bind_texture ==
    /\ conv.fn = "import" /\ conv.at = "bind_texture"
    /\ \E gl_error \in BOOLEAN :
          LET c == [conv EXCEPT !.textures = conv.textures + 1,
                                !.created = conv.created + 1]
          IN  conv' = IF gl_error
                      THEN ImportReturn([c EXCEPT !.textures = c.textures - 1,
                                                  !.images = c.images - 1,
                                                  !.destroyed = c.destroyed + 2],
                                        "bind_failed", FALSE)
                      ELSE [c EXCEPT !.at = "attach"]
    /\ UNCHANGED pipeline_vars

\* Lines 257-268: glBindFramebuffer, glFramebufferTexture2D,
\* glCheckFramebufferStatus.
gl_import_attach ==
    /\ conv.fn = "import" /\ conv.at = "attach"
    /\ \E complete \in BOOLEAN :
          LET c == [conv EXCEPT !.framebuffer_binding = CTX_FRAMEBUFFER]
          IN  conv' = IF ~complete
                      THEN ImportReturn(ImportRelease(c), "incomplete", FALSE)
                      ELSE [c EXCEPT !.at = "read"]
    /\ UNCHANGED pipeline_vars

\* Lines 271-298: the size check, glReadPixels and the clean-up.
gl_import_read ==
    /\ conv.fn = "import" /\ conv.at = "read"
    /\ \E gl_error \in BOOLEAN :
          LET expected_size == conv.width * conv.height * 4
          IN  conv' = IF conv.out_buffer_size < expected_size
                      THEN ImportReturn(ImportRelease(conv), "too_small", FALSE)
                      ELSE IF gl_error
                      THEN ImportReturn(ImportRelease(conv), "read_failed", FALSE)
                      ELSE ImportReturn(ImportRelease(conv), "success", TRUE)
    /\ UNCHANGED pipeline_vars

ImportInit ==
    /\ env = EnvScenario
    /\ InitPipeline
    /\ conv \in ImportCalls

ImportNext ==
    \/ gl_import_begin
    \/ gl_import_create_image
    \/ gl_import_bind_texture
    \/ gl_import_attach
    \/ gl_import_read

ImportSpec == ImportInit /\ [][ImportNext]_vars



(***************************************************************************)
(* The bytes behind the frame pointer of on_stream_process, and the stride *)
(* resolved for them.  The producer is well behaved: a chunk stride, when  *)
(* reported, is the packed row or the packed row plus padding, the chunk   *)
(* size is 0 or stride * height, and the buffer (maxsize) holds the chunk  *)
(* offset and the whole frame.                                             *)
(***************************************************************************)

\* Padding of a row, in bytes.
RowPadding == 64

ExtentCalls ==
    UNION {
      LET row == w * BytesPerPixel(f) IN
      UNION {
        LET pitch == IF cs > 0 THEN cs ELSE row IN
        {[fn |-> "extent", at |-> "call", type |-> t.type, mappable |-> t.mappable,
          gl_ctx |-> gl, width |-> w, height |-> h, spa_format |-> f,
          chunk_stride |-> cs, chunk_size |-> sz, chunk_offset |-> off,
          maxsize |-> off + pitch * h + slack,
          frame_data |-> "NULL", valid |-> 0, stride |-> 0] :
            sz \in {0, pitch * h}, off \in {0, 16}, slack \in {0, RowPadding},
            gl \in {"NULL", "import"},
            t \in {[type |-> "MemFd", mappable |-> TRUE],
                   [type |-> "MemPtr", mappable |-> FALSE],
                   [type |-> "DmaBuf", mappable |-> TRUE],
                   [type |-> "DmaBuf", mappable |-> FALSE]}} :
          cs \in {0, row, row + RowPadding}} :
        w \in 1..MaxConvWidth, h \in 1..MaxConvHeight,
        f \in {SPA_VIDEO_FORMAT_BGRx, SPA_VIDEO_FORMAT_RGB}}

\* Lines 759-861 of on_stream_process: the frame pointer and the bytes that
\* are valid behind it.  gl_import_dma_buffer reads width * height * 4 bytes
\* back into gl_buffer; a mapping covers maxsize bytes and the frame pointer
\* is chunk->offset into it.
on_stream_process_acquire ==
    /\ conv.fn = "extent" /\ conv.at = "call"
    /\ \E ok \in BOOLEAN :
         IF conv.type = "DmaBuf" /\ gl_has_dma_buf_import_support(conv.gl_ctx) /\ ok
         THEN conv' = [conv EXCEPT !.at = "acquired", !.frame_data = "gl",
                                   !.valid = conv.width * conv.height * 4]
         ELSE IF conv.type = "DmaBuf" /\ ~conv.mappable
         THEN conv' = [conv EXCEPT !.at = "done"]
         ELSE \E mapped \in (IF conv.type = "MemPtr" THEN {TRUE} ELSE BOOLEAN) :
                conv' = IF mapped
                        THEN [conv EXCEPT
                                !.at = "acquired",
                                !.frame_data = IF conv.type = "MemPtr"
                                               THEN "ptr" ELSE "map",
                                !.valid = conv.maxsize - conv.chunk_offset]
                        ELSE [conv EXCEPT !.at = "done"]
    /\ UNCHANGED pipeline_vars

\* Lines 868-900 of on_stream_process: the stride handed to the validity
\* filter and to the conversion.
on_stream_process_stride ==
    /\ conv.fn = "extent" /\ conv.at = "acquired"
    /\ conv' = [conv EXCEPT
                  !.at = "resolved",
                  !.stride = ResolveStride(conv.chunk_stride, conv.chunk_size,
                                           conv.width, conv.height,
                                           conv.spa_format)]
    /\ UNCHANGED pipeline_vars

ExtentInit ==
    /\ env = EnvScenario
    /\ InitPipeline
    /\ conv \in ExtentCalls

ExtentNext ==
    \/ on_stream_process_acquire
    \/ on_stream_process_stride

ExtentSpec == ExtentInit /\ [][ExtentNext]_vars

(***************************************************************************)
(* Properties.  `last` is the record of the frame callback that has just   *)
(* returned (last.dequeued), so a predicate on it speaks about the state   *)
(* in which on_stream_process returns.                                     *)
(***************************************************************************)

\* C1: with the session active, a frame callback requests shutdown exactly
\* when it made the 5th consecutive failed sink write, and after a write
\* that succeeded the failure counter is 0 and no shutdown was requested.
C1_Claim ==
    (last.dequeued /\ session.session_active) =>
        /\ last.quit <=> (last.wrote /\ last.written < 0
                          /\ consec_failed = MAX_WRITE_ERRORS)
        /\ (last.wrote /\ last.written > 0) =>
              (write_error_count = 0 /\ ~last.quit)

\* C1: a frame callback requested shutdown with the session active.
C1_Witness == last.dequeued /\ session.session_active /\ last.quit

\* C2: a frame callback whose sink write failed requests shutdown (and the
\* PipeWire loop is quit) if the session is not active, whatever the
\* counter; with the session active and the counter below 5 after the
\* increment it requests none and the data thread is free for the next frame.
C2_QuitOnFailedWrite ==
    (last.dequeued /\ last.wrote /\ last.written < 0) =>
        /\ ~session.session_active => (last.quit /\ ~pw_running)
        /\ (session.session_active /\ write_error_count < MAX_WRITE_ERRORS) =>
              (~last.quit /\ rtPc = "idle")

\* C2: the first failed write of a run whose session is no longer active
\* has requested shutdown.
C2_Witness ==
    /\ last.dequeued /\ last.wrote /\ last.written < 0
    /\ ~session.session_active
    /\ write_error_count = 1
    /\ last.quit

\* C3: after every sink write of a frame callback that returned a
\* non-negative count (zero-byte and partial writes included) the failure
\* counter is 0.
C3_Claim ==
    (last.dequeued /\ last.wrote /\ last.written >= 0) => write_error_count = 0

\* C3: a sink write returned zero bytes.
C3_Witness == last.dequeued /\ last.wrote /\ last.written = 0

\* C4: a frame is written to the sink only if more than 5 frames were
\* delivered since the last format-changed event.
C4_Claim ==
    (last.dequeued /\ last.wrote) => frames_since_format > SKIP_FRAMES

\* C4: a frame was written to the sink.
C4_Witness == last.dequeued /\ last.wrote /\ frames_since_format > SKIP_FRAMES

\* C5: whenever a frame has been converted, conversion_buffer_size is
\* width*height*2 for the width and height of the most recent format event.
C5_Claim ==
    (last.dequeued /\ last.converted) =>
        data.conversion_buffer_size = data.width * data.height * YUYV_BYTES_PER_PIXEL

\* C5: a frame was converted after the geometry had been renegotiated.
C5_Witness ==
    /\ last.dequeued /\ last.converted
    /\ sink # <<data.width, data.height>>

\* C6: at every sink write of a frame callback the geometry the sink was
\* last successfully set to is the pipeline's current width and height.
C6_Claim ==
    (last.dequeued /\ last.wrote) => sink = <<data.width, data.height>>

\* C6: a frame was written to a sink that was never configured.
C6_Witness == last.dequeued /\ last.wrote /\ sink = <<0, 0>>

\* C7: a frame callback that returned has called munmap exactly once if its
\* mmap succeeded and not at all otherwise, whichever way it left.
C7_MapReleased == last.dequeued => last.munmaps = last.mmaps

\* C7: a callback that mapped the buffer, failed the write and requested
\* shutdown has unmapped it.
C7_Witness == last.dequeued /\ last.mmaps = 1 /\ last.munmaps = 1 /\ last.quit

\* C8: when on_stream_process has returned, the buffer it dequeued was
\* queued back exactly once, and nothing was queued if it dequeued nothing.
C8_BufferReturned ==
    rtPc = "idle" => last.queued = (IF last.dequeued THEN 1 ELSE 0)

\* C8: a callback that could not get at the frame data has queued the
\* buffer back.
C8_Witness ==
    last.dequeued /\ last.path = "no_frame_data" /\ last.mmaps = 0 /\ last.queued = 1

\* C9: the stream callbacks are dispatched one after another: no
\* format-changed or state-changed callback runs while a frame callback is
\* between its dequeue and its return.
C9_Claim ==
    [][(on_stream_param_changed \/ on_stream_state_changed) => rtPc = "idle"]_vars

\* C9: a frame callback is in progress while the main loop is running.
C9_Witness == rtPc = "frame" /\ pw_running

\* C10: a termination signal received in any state eventually leads to the
\* cleanup section and the exit of the process.
C10_Claim == sig_received ~> (pc = "exit")

\* C10: a signal was received while the color-bars loop was writing.
C10_Witness == sig_received /\ pc = "color_bars_loop"

\* C11: when the session is reported closed while the PipeWire loop is the
\* loop being run, the pipeline eventually leaves the streaming loop and
\* reaches cleanup.
C11_Claim ==
    (pc = "pw_loop" /\ session.closed = "emitted") ~> (pc \in {"cleanup", "exit"})

\* C11: the session was reported closed while the pipeline was streaming.
C11_Witness ==
    pc = "pw_loop" /\ pw_running /\ session.closed = "emitted"
    /\ session.session_active

\* C12: once cleanup has run, every resource that was acquired (stream, core,
\* context, portal session, sink descriptor, scratch buffer, GL buffer, GL
\* context, main loop) has been released exactly once, no block that was
\* acquired is left unreleased, and nothing that was never acquired has been
\* released.
C12_Claim ==
    (pc = "exit" /\ ~global_app_data) =>
        /\ leaked = {}
        /\ \A r \in Resources :
              released[r] = IF CleanupReleases(data, r) THEN 1 ELSE 0

\* C12: cleanup has run after the pipeline acquired its stream and its
\* scratch buffer, and released both.
C12_Witness ==
    /\ pc = "exit" /\ ~global_app_data
    /\ released["stream"] = 1 /\ released["conversion_buffer"] = 1
    /\ released["v4l2_fd"] = 1 /\ released["portal_session"] = 1

\* C13: the exit code is 0 or 1 when main returns from argument parsing (help,
\* unknown option), 0 after a graceful shutdown, and non-zero when main
\* returns through cleanup after a startup failure: the sink device could not
\* be opened, or the portal session could not be created or did not become
\* ready although no termination signal was delivered.
C13_Claim ==
    pc = "exit" =>
        IF global_app_data
        THEN exit_code \in {0, 1}
        ELSE IF \/ data.v4l2_fd < 0
                \/ /\ ~data.color_bars_mode
                   /\ ~sig_received
                   /\ ~data.portal_session \/ ~data.portal_ready
        THEN exit_code # 0
        ELSE exit_code = 0

\* C13: main returned through cleanup after the sink device failed to open.
C13_Witness ==
    pc = "exit" /\ ~global_app_data /\ data.v4l2_fd < 0 /\ released["v4l2_fd"] = 0

\* C14: when the sink device failed to open at startup, main is in cleanup or
\* has returned, and no portal session, PipeWire loop or stream was created,
\* no event loop runs, the sink was never configured and no frame was handled
\* or written; with no GL context no frame is ever offered to or obtained
\* from the GPU import; and main never reaches cleanup before it has tried to
\* open the sink, whatever gl_context_create returned.
C14_Claim ==
    /\ data.v4l2_fd < 0 =>
          /\ pc \in {"cleanup", "exit"}
          /\ ~data.portal_session /\ session = InitSession
          /\ ~data.loop /\ ~data.stream
          /\ ~glib_running /\ ~pw_running
          /\ sink = <<0, 0>>
          /\ [last EXCEPT !.signalled = FALSE, !.sig_loop = FALSE,
                           !.sig_session = FALSE] = NoFrame
          /\ frames_since_format = 0 /\ consec_failed = 0
          /\ write_error_count = 0
    /\ (pc \notin {"parse_args", "gl_init"} /\ data.gl_ctx = "NULL") =>
          last.imports = 0 /\ ~last.imported
    /\ (pc = "cleanup" \/ ~global_app_data) => data.v4l2_fd # InitData.v4l2_fd

\* C14: the sink failed to open and main has gone through cleanup.
C14_Witness ==
    pc = "exit" /\ ~global_app_data /\ data.v4l2_fd < 0

\* C14: with no GL context the session started and a DMA buffer was handled
\* through the mapping path.
C14_WitnessNoGL ==
    /\ data.gl_ctx = "NULL" /\ pc = "pw_loop" /\ data.v4l2_fd >= 0
    /\ last.dequeued /\ last.type = "DmaBuf" /\ last.mmap_calls = 1 /\ last.wrote

\* C15 (as stated): for a DMA buffer, the GPU import is attempted when a GL
\* context with import support exists (and only then); when the frame was not
\* obtained by import, the buffer is mapped if and only if it is mappable, and
\* an unmappable one is dropped without a mapping attempt; a successful
\* import makes no mapping.
C15_Original ==
    (last.dequeued /\ last.type = "DmaBuf") =>
        /\ last.imports = IF gl_has_dma_buf_import_support(data.gl_ctx) THEN 1 ELSE 0
        /\ ~last.imported => (last.mmap_calls = 1 <=> last.mappable)
        /\ (~last.imported /\ ~last.mappable) =>
              last.path = "no_frame_data" /\ ~last.wrote /\ last.mmap_calls = 0
        /\ last.imported => last.mmap_calls = 0 /\ last.mmaps = 0

\* C15 (amended): as stated, except when a GL context with import support
\* exists and the GL readback buffer could not be allocated: then neither the
\* import nor a mapping is attempted and the frame is dropped.
C15_Claim ==
    (last.dequeued /\ last.type = "DmaBuf") =>
        IF gl_has_dma_buf_import_support(data.gl_ctx) /\ ~data.gl_buffer
        THEN /\ last.imports = 0 /\ last.mmap_calls = 0
             /\ last.path = "no_frame_data" /\ ~last.wrote
        ELSE /\ last.imports =
                  IF gl_has_dma_buf_import_support(data.gl_ctx) THEN 1 ELSE 0
             /\ ~last.imported => (last.mmap_calls = 1 <=> last.mappable)
             /\ (~last.imported /\ ~last.mappable) =>
                   /\ last.path = "no_frame_data" /\ ~last.wrote
                   /\ last.mmap_calls = 0
             /\ last.imported => last.mmap_calls = 0 /\ last.mmaps = 0

\* C15: the import of a mappable DMA buffer failed and the buffer was mapped
\* instead.
C15_Witness ==
    /\ last.dequeued /\ last.type = "DmaBuf" /\ last.mappable
    /\ last.imports = 1 /\ ~last.imported /\ last.mmaps = 1

\* C16: a frame callback that meets a buffer error (a DMA buffer that was not
\* imported and is not mappable, a failed mmap, an unsupported buffer type, a
\* failed allocation of the GL readback buffer or of the scratch buffer)
\* makes no sink write and no conversion, leaves the failure counter, the
\* run flag of the loop, the negotiated format and the frame-skip counter as
\* they were, requests no shutdown, and returns the buffer, so that the next
\* frame is delivered and handled as any other.
C16_Claim ==
    [][(/\ rtPc = "frame" /\ rtPc' = "idle"
        /\ \/ last'.type = "Invalid"
           \/ last'.type = "DmaBuf" /\ ~last'.imported /\ ~last'.mappable
           \/ last'.mmap_calls = 1 /\ last'.mmaps = 0
           \/ /\ last'.type = "DmaBuf"
              /\ gl_has_dma_buf_import_support(data.gl_ctx)
              /\ ~data'.gl_buffer
           \/ last'.path = "alloc_failed")
       => /\ ~last'.wrote /\ ~last'.converted /\ ~last'.quit
          /\ last'.queued = 1
          /\ write_error_count' = write_error_count
          /\ consec_failed' = consec_failed
          /\ pw_running' = pw_running
          /\ pc' = pc
          /\ \A f \in {"stream", "loop", "v4l2_fd", "width", "height", "spa_format",
                       "format_set", "frame_skip_count", "portal_session"} :
                data'[f] = data[f]]_vars

\* C16: a frame was dropped because mmap failed, after an earlier write had
\* failed, and the pipeline is still streaming.
C16_Witness ==
    /\ last.dequeued /\ last.mmap_calls = 1 /\ last.mmaps = 0 /\ ~last.wrote
    /\ write_error_count > 0 /\ pw_running /\ pc = "pw_loop"

\* C16: a frame was dropped because the scratch buffer could not be
\* allocated.
C16_WitnessScratch ==
    last.dequeued /\ last.path = "alloc_failed" /\ pw_running /\ pc = "pw_loop"

\* C17: a format-changed event whose layout is not one of the registered
\* RGB-family layouts changes nothing (the event is one after which the
\* stored layout is an unsupported one; struct app_data and the sink
\* configuration are as before it), and a frame callback that made no sink
\* write leaves the failure counter as it was and requests no shutdown.
C17_Claim ==
    [][/\ (/\ pc = "pw_loop" /\ rtPc' = rtPc
           /\ frames_since_format' = 0
           /\ data.spa_format \in SupportedFormats \cup {InitData.spa_format}
           /\ data'.spa_format \notin SupportedFormats)
          => (data' = data /\ sink' = sink)
       /\ (rtPc = "frame" /\ rtPc' = "idle" /\ ~last'.wrote)
          => (write_error_count' = write_error_count /\ ~last'.quit)]_vars

\* C17: the stream negotiated a layout outside the registered ones and the
\* sink and the scratch buffer were set up for it.
C17_Witness ==
    /\ pc = "pw_loop" /\ data.spa_format = SPA_VIDEO_FORMAT_YUY2
    /\ data.format_set /\ data.conversion_buffer
    /\ sink = <<data.width, data.height>>

\* C18: a param event with a NULL param, with an id other than the format id
\* (the buffers id included), or with a format that fails to parse changes
\* nothing: width, height, stride, layout, format_set, the frame-skip
\* counter, the scratch buffer and its size (all of struct app_data) and the
\* sink configuration are as before.
C18_Claim ==
    [][last'.param \in {"null", "other_id", "buffers", "unparsable"}
       => (data' = data /\ sink' = sink /\ leaked' = leaked
           /\ write_error_count' = write_error_count /\ pw_running' = pw_running)]_vars

\* C18: a format that failed to parse arrived after a format had been
\* negotiated and frames were being written.
C18_Witness ==
    /\ last.param = "unparsable" /\ data.format_set /\ data.conversion_buffer
    /\ data.frame_skip_count = SKIP_FRAMES /\ sink = <<data.width, data.height>>

\* C19: in the end-to-end scenario (one negotiation of 1280x720 in BGRx,
\* frames whose chunk stride is 1280*4), each of the first 5 frames delivered
\* after the negotiation makes no sink write; a frame delivered after them
\* that is not rejected by the validity filter is converted and makes one
\* sink write, of 1280*720*2 = 1,843,200 bytes.
C19_Claim ==
    (env.name = "scenario" /\ last.dequeued) =>
        /\ data.width = COLOR_BARS_WIDTH /\ data.height = COLOR_BARS_HEIGHT
        /\ data.spa_format = SPA_VIDEO_FORMAT_BGRx
        /\ data.stride = COLOR_BARS_WIDTH * 4
        /\ frames_since_format <= SKIP_FRAMES => (~last.wrote /\ last.path = "skipped")
        /\ (frames_since_format > SKIP_FRAMES /\ last.path # "invalid") =>
              /\ last.wrote /\ last.converted
              /\ last.write_len =
                    COLOR_BARS_WIDTH * COLOR_BARS_HEIGHT * YUYV_BYTES_PER_PIXEL
              /\ last.write_len = 1843200

\* C19: the 6th frame after the negotiation was written in full.
C19_Witness ==
    /\ env.name = "scenario" /\ last.dequeued /\ data.frame_skip_count = SKIP_FRAMES
    /\ last.wrote /\ last.written = 1843200 /\ sink = <<1280, 720>>

\* C20: at every point of a call of convert_bgrx_to_yuyv, for every width
\* and height (odd widths included), every destination offset written lies
\* in [0, width*height*2) and every source offset read lies inside the
\* width*4 bytes of one of the height source rows.
C20_Claim ==
    /\ \A o \in conv.dst_written : 0 <= o /\ o < conv.width * conv.height * 2
    /\ \A r \in conv.src_read :
          /\ 0 <= r[1] /\ r[1] < conv.height
          /\ r[1] * conv.src_stride <= r[2]
          /\ r[2] < r[1] * conv.src_stride + conv.width * 4

\* C20: a call with an odd width has converted its last, unpaired column and
\* returned.
C20_Witness ==
    /\ conv.at = "returned" /\ conv.width % 2 = 1 /\ conv.height > 0
    /\ conv.dst_written # {}

C22_Claim ==
    (conv.at = "returned" /\ conv.width % 2 = 1) =>
        \A y \in 0..(conv.height - 1) :
            LET p == SrcPixel(conv, conv.width - 1, y)
                at == (y * conv.width + conv.width - 1) * 2
                cl(v) == IF v < 0 THEN 0 ELSE IF v > 255 THEN 255 ELSE v
                luma == cl((77 * p.r + 150 * p.g + 29 * p.b) \div 256)
                u == cl(((-38 * p.r - 74 * p.g + 112 * p.b) \div 256) + 128)
                v == cl(((112 * p.r - 94 * p.g - 18 * p.b) \div 256) + 128)
            IN  /\ at + 4 <= Len(conv.dst)
                /\ conv.dst[at + 1] = luma /\ conv.dst[at + 2] = u
                /\ conv.dst[at + 3] = luma /\ conv.dst[at + 4] = v

\* C22: a frame of odd width and two rows of different colours was
\* converted: the bytes after the first row's last luma and U byte are the
\* second row's.
C22_Witness ==
    /\ conv.at = "returned" /\ conv.width = 1 /\ conv.height = 2
    /\ SrcPixel(conv, 0, 0) # SrcPixel(conv, 0, 1)
    /\ conv.dst[3] # conv.dst[1]
    /\ conv.beyond # {}

\* C23: the resolved row stride is the declared chunk stride if that is
\* positive, else the declared chunk size divided by the height if both are
\* positive, else width*bytes_per_pixel, raised to width*bytes_per_pixel if
\* it is smaller (bytes_per_pixel 3 for the two 24-bit layouts, 4 otherwise);
\* so it is never below width*bytes_per_pixel.
C23_Claim ==
    (conv.fn = "resolve_stride" /\ conv.at = "returned") =>
        LET bpp == IF conv.spa_format \in {15, 16} THEN 3 ELSE 4
            minimum == conv.width * bpp
            first == IF conv.chunk_stride > 0 THEN conv.chunk_stride
                     ELSE IF conv.height > 0 /\ conv.chunk_size > 0
                     THEN conv.chunk_size \div conv.height
                     ELSE minimum
        IN  /\ conv.result = IF first < minimum THEN minimum ELSE first
            /\ conv.result >= minimum

\* C23: a stride derived from the chunk size was below the packed row and
\* was raised to it.
C23_Witness ==
    /\ conv.fn = "resolve_stride" /\ conv.at = "returned"
    /\ conv.chunk_stride <= 0 /\ conv.chunk_size > 0 /\ conv.height > 1
    /\ conv.chunk_size \div conv.height < conv.width * 3
    /\ conv.spa_format = SPA_VIDEO_FORMAT_RGB
    /\ conv.result = conv.width * 3

\* C24 as stated: whenever the resolved stride is strictly greater than
\* width*bytes_per_pixel, the conversion is handed a packed buffer of exactly
\* width*height*bytes_per_pixel bytes whose byte i of row y is byte
\* y*stride + i of the source, together with the stride width*bytes_per_pixel.
C24_Original ==
    (conv.fn = "pack" /\ conv.at = "returned"
        /\ conv.actual_stride > conv.width * (IF conv.spa_format \in {15, 16} THEN 3 ELSE 4)) =>
        LET bpp == IF conv.spa_format \in {15, 16} THEN 3 ELSE 4
        IN  /\ conv.conversion_src = "packed_buffer"
            /\ Len(conv.packed_buffer) = conv.width * conv.height * bpp
            /\ \A y \in 0..(conv.height - 1) : \A i \in 0..(conv.width * bpp - 1) :
                   conv.packed_buffer[y * conv.width * bpp + i + 1]
                       = (conv.seed + y * conv.actual_stride + i) % 256
            /\ conv.conversion_stride = conv.width * bpp

\* C24: when the resolved stride is strictly greater than
\* width*bytes_per_pixel and the packed buffer could be allocated, the
\* conversion is handed a packed buffer of exactly width*height*bytes_per_pixel
\* bytes whose byte i of row y is byte y*stride + i of the source, together
\* with the stride width*bytes_per_pixel; when the allocation fails, the
\* conversion is handed the mapped frame itself with the resolved stride.
C24_Claim ==
    (conv.fn = "pack" /\ conv.at = "returned"
        /\ conv.actual_stride > conv.width * (IF conv.spa_format \in {15, 16} THEN 3 ELSE 4)) =>
        LET bpp == IF conv.spa_format \in {15, 16} THEN 3 ELSE 4
        IN  IF conv.allocated
            THEN /\ conv.conversion_src = "packed_buffer"
                 /\ Len(conv.packed_buffer) = conv.width * conv.height * bpp
                 /\ \A y \in 0..(conv.height - 1) : \A i \in 0..(conv.width * bpp - 1) :
                        conv.packed_buffer[y * conv.width * bpp + i + 1]
                            = (conv.seed + y * conv.actual_stride + i) % 256
                 /\ conv.conversion_stride = conv.width * bpp
            ELSE /\ conv.conversion_src = "frame_data"
                 /\ conv.conversion_stride = conv.actual_stride

\* C24: a padded frame of several rows and columns was packed.
C24_Witness ==
    /\ conv.fn = "pack" /\ conv.at = "returned" /\ conv.allocated
    /\ conv.width >= 2 /\ conv.height >= 2
    /\ conv.actual_stride > conv.width * BytesPerPixel(conv.spa_format)
    /\ conv.conversion_src = "packed_buffer"
    /\ Len(conv.packed_buffer) = conv.width * conv.height * BytesPerPixel(conv.spa_format)

C26_Claim ==
    (conv.fn = "validate" /\ conv.at = "returned") =>
        /\ (100 * (conv.total_pixels_checked - conv.non_black_count)
                >= 99 * conv.total_pixels_checked) => ~conv.frame_valid
        /\ (/\ conv.colour = Saturated
            /\ conv.block.w > 0 /\ conv.block.h > 0
            /\ 10 * conv.block.w * conv.block.h = conv.width * conv.height)
               => conv.frame_valid

\* C26, first half: a frame in which at least 99% of the sampled pixels are
\* exactly zero is rejected.
C26_MostlyZeroRejected ==
    (conv.fn = "validate" /\ conv.at = "returned"
        /\ 100 * (conv.total_pixels_checked - conv.non_black_count)
               >= 99 * conv.total_pixels_checked) => ~conv.frame_valid

\* C26: a frame with a saturated block of a tenth of its area in its last
\* rows was rejected, no pixel of the block having been sampled.
C26_Witness ==
    /\ conv.fn = "validate" /\ conv.at = "returned"
    /\ conv.colour = Saturated
    /\ conv.block.w = conv.width /\ conv.block.y + conv.block.h = conv.height
    /\ 10 * conv.block.w * conv.block.h = conv.width * conv.height
    /\ conv.total_pixels_checked = 1000
    /\ conv.non_black_count = 0
    /\ ~conv.frame_valid

\* C27: converting the same input frame twice with the same layout, width,
\* height and stride leaves byte-identical contents in the scratch buffer,
\* whatever the scratch buffer held before each conversion.
C27_Claim ==
    (conv.fn = "convert" /\ conv.calls = 2) => conv.dst = conv.first

\* C27: the second conversion of a 24-bit frame could not allocate its
\* temporary buffer and left the scratch buffer as it found it.
C27_Witness ==
    /\ conv.fn = "convert" /\ conv.calls = 2
    /\ conv.spa_format = SPA_VIDEO_FORMAT_RGB
    /\ ~conv.converted
    /\ conv.dst # conv.first

\* C27 for the converters that allocate nothing (convert_bgrx_to_yuyv,
\* convert_xrgb_to_yuyv, convert_argb_to_yuyv): two conversions of the same
\* frame leave the same bytes.
C27_NoTempBuffer ==
    (conv.fn = "convert" /\ conv.calls = 2 /\ ~UsesTempBuffer(conv.spa_format)) =>
        conv.dst = conv.first

\* C28: for all supported source layouts and all even widths, converting a
\* frame of one solid colour C produces, for every pixel pair, Y, U and V
\* each within 2 of the closed-form BT.601 transform of C.  The transform
\* is taken in whichever of its two ranges fits the pair: studio range
\* (Y = 16 + 0.257R + 0.504G + 0.098B, U = 128 - 0.148R - 0.291G + 0.439B,
\* V = 128 + 0.439R - 0.368G - 0.071B) or full range (Y = 0.299R + 0.587G
\* + 0.114B, U = 128 - 0.169R - 0.331G + 0.5B, V = 128 + 0.5R - 0.419G
\* - 0.081B).  The coefficients are scaled by 1000 (studio) and 1000000
\* (full) to compare in integers.
C28_Claim ==
    (conv.fn = "convert" /\ conv.at = "returned" /\ conv.converted) =>
        LET R == conv.colour[1]
            G == conv.colour[2]
            B == conv.colour[3]
            near(v, scaled, unit) ==
                /\ unit * v - scaled <= 2 * unit
                /\ scaled - unit * v <= 2 * unit
            studio(Y, U, V) ==
                /\ near(Y - 16, 257 * R + 504 * G + 98 * B, 1000)
                /\ near(U - 128, 439 * B - 148 * R - 291 * G, 1000)
                /\ near(V - 128, 439 * R - 368 * G - 71 * B, 1000)
            full(Y, U, V) ==
                /\ near(Y, 299000 * R + 587000 * G + 114000 * B, 1000000)
                /\ near(U - 128, 500000 * B - 168736 * R - 331264 * G, 1000000)
                /\ near(V - 128, 500000 * R - 418688 * G - 81312 * B, 1000000)
        IN  \A k \in 0..((conv.width * conv.height) \div 2 - 1) :
                LET Y0 == conv.dst[4 * k + 1]
                    U == conv.dst[4 * k + 2]
                    Y1 == conv.dst[4 * k + 3]
                    V == conv.dst[4 * k + 4]
                IN  \/ studio(Y0, U, V) /\ studio(Y1, U, V)
                    \/ full(Y0, U, V) /\ full(Y1, U, V)

\* C28: a solid blue frame in the layout converted by explicit arithmetic
\* got the luma of the full range and the chroma of the studio range.
C28_Witness ==
    /\ conv.fn = "convert" /\ conv.at = "returned" /\ conv.converted
    /\ conv.spa_format = SPA_VIDEO_FORMAT_BGRx
    /\ conv.colour = <<0, 0, 255>>
    /\ conv.dst[1] = 28 /\ conv.dst[2] = 239 /\ conv.dst[4] = 110

\* C28 for the one layout whose bytes libyuv reads in the order the frame
\* has them (BGR, format 16): the output is within 2 of studio-range BT.601.
C28_BGR24 ==
    (conv.fn = "convert" /\ conv.at = "returned" /\ conv.converted
        /\ conv.spa_format = SPA_VIDEO_FORMAT_BGR) =>
        LET R == conv.colour[1]
            G == conv.colour[2]
            B == conv.colour[3]
            near(v, scaled) == /\ 1000 * v - scaled <= 2000
                               /\ scaled - 1000 * v <= 2000
        IN  \A k \in 0..((conv.width * conv.height) \div 2 - 1) :
                /\ near(conv.dst[4 * k + 1] - 16, 257 * R + 504 * G + 98 * B)
                /\ near(conv.dst[4 * k + 3] - 16, 257 * R + 504 * G + 98 * B)
                /\ near(conv.dst[4 * k + 2] - 128, 439 * B - 148 * R - 291 * G)
                /\ near(conv.dst[4 * k + 4] - 128, 439 * R - 368 * G - 71 * B)

\* C29: on every return path of gl_import_dma_buffer (image creation
\* failure, texture bind failure, incomplete framebuffer, output buffer too
\* small, readback failure, success) every EGL image and texture created
\* during the call has been destroyed and the framebuffer binding is 0; the
\* number of live images and textures after the call equals the number
\* before it.
C29_Claim ==
    (conv.fn = "import" /\ conv.at = "idle" /\ conv.calls > 0) =>
        /\ conv.ret \in {"rejected", "not_current", "image_failed", "bind_failed",
                         "incomplete", "too_small", "read_failed", "success"}
        /\ conv.destroyed = conv.created
        /\ conv.framebuffer_binding = 0
        /\ conv.images = conv.images_before
        /\ conv.textures = conv.textures_before

\* C29: a call that created an image and a texture returned because the
\* output buffer was too small, after an earlier call on the same context.
C29_Witness ==
    /\ conv.fn = "import" /\ conv.at = "idle" /\ conv.calls = 2
    /\ conv.ret = "too_small"
    /\ conv.created = 2 /\ conv.destroyed = 2
    /\ conv.framebuffer_binding = 0

\* C29: the call succeeded after creating an image and a texture.
C29_WitnessSuccess ==
    /\ conv.fn = "import" /\ conv.at = "idle"
    /\ conv.ret = "success" /\ conv.result
    /\ conv.created = 2 /\ conv.images = 0 /\ conv.textures = 0

\* C30: when the transport stream reports an error (a state-changed event
\* carrying an error, or a transition to the error or unconnected state)
\* while the pipeline is negotiating or streaming, the pipeline eventually
\* requests shutdown and reaches cleanup.
C30_Claim ==
    (pc = "pw_loop" /\ pw_running /\ last.stream_error) ~> (pc \in {"cleanup", "exit"})

\* C30: the stream reported an error while the pipeline was streaming and
\* the main loop kept running.
C30_Witness ==
    /\ pc = "pw_loop" /\ pw_running /\ last.stream_error
    /\ data.stream_ready /\ data.format_set

\* C31: no frame is converted or written to the sink before the setup
\* actions of a format-changed event have all completed successfully (sink
\* configured, scratch buffer allocated, frame-skip counter reset); in
\* particular, when the sink set-format call of the first format-changed
\* event fails, no later frame is written until a format-changed event
\* succeeds.
C31_Claim ==
    (last.dequeued /\ (last.converted \/ last.wrote)) => data.format_set

\* C31: a frame was converted and written although no sink set-format call
\* has succeeded.
C31_Witness ==
    /\ last.dequeued /\ last.converted /\ last.wrote /\ last.written > 0
    /\ ~data.format_set
    /\ sink # <<data.width, data.height>>

C33_Claim ==
    [][/\ \A st \in DOMAIN session'.invoked : session'.invoked[st] <= 1
       /\ last'.stage = "created"
            => /\ session.request = "create" /\ last'.issued = "select"
               /\ session'.request \in {"select", "none"}
       /\ last'.stage = "selected"
            => /\ session.request = "select" /\ last'.issued = "start"
               /\ session.invoked["created"] = 1
               /\ session'.request \in {"start", "none"}
       /\ last'.stage \in {"started", "ready"}
            => /\ session.request = "start" /\ last'.issued = "open"
               /\ session.invoked["selected"] = 1
               /\ last'.node \in NodeIds
               /\ session'.request = "none"
       /\ last'.stage = "ready"
            => /\ last'.ready_node = last'.node
               /\ session'.node_id = last'.node
       /\ session'.request = "select" /\ session.request # "select"
            => last'.stage = "created"
       /\ session'.request = "start" /\ session.request # "start"
            => last'.stage = "selected"
       /\ last'.issued = "open" => last'.stage \in {"started", "ready"}
      ]_vars

\* C33 witness: the transport-ready completion has run with the second node
\* id, after each earlier completion ran once.
C33_Witness ==
    /\ last.stage = "ready" /\ last.ready_node = 41 /\ last.node = 41
    /\ session.invoked = [stage \in {"created", "selected", "started", "ready"} |-> 1]
    /\ data.portal_ready

\* The state right after a handshake step that failed: a response with a
\* non-zero code, a select-sources, start or open-transport request that could
\* not be issued, or a PipeWire loop or stream that could not be created.
C34_StepFailed ==
    \/ last.stage = "failed"
    \/ last.stage \in {"created", "selected"} /\ session.request = "none"
    \/ last.stage = "started"
    \/ last.stage = "ready" /\ ~data.portal_ready

\* C34: when a handshake step fails the portal main loop is quit, no further
\* handshake request is issued, the PipeWire loop is never run, and the
\* program proceeds to cleanup.
C34_Claim ==
    /\ [][/\ C34_StepFailed'
               => /\ ~glib_running' /\ session'.request = "none"
                  /\ ~data'.portal_ready
          /\ (session.request = "none" /\ pc # "portal_setup")
               => /\ session'.request = "none"
                  /\ data'.portal_ready = data.portal_ready
          /\ pc' = "pw_loop" => data.portal_ready
          /\ (pc = "after_portal" /\ ~data.portal_ready /\ pc' # pc)
               => pc' = "cleanup"
         ]_vars
    /\ (C34_StepFailed ~> (pc \in {"cleanup", "exit"} /\ ~data.portal_ready))

\* C34 witness: cleanup is reached without the PipeWire loop having run, after
\* the stream could not be created on the opened transport.
C34_Witness ==
    /\ pc = "cleanup" /\ data.loop /\ data.core /\ ~data.stream
    /\ ~data.portal_ready /\ session.invoked["ready"] = 1
    /\ session.request = "none" /\ ~glib_running /\ ~pw_running

\* C35: once the portal main loop is running the handshake terminates: for
\* every sequence of portal responses (a successful response to the start
\* request without a stream entry included) the portal main loop is
\* eventually quit, with the transport ready or with a failure.
C35_Claim ==
    (pc = "portal_loop" /\ glib_running) ~> (pc # "portal_loop" \/ ~glib_running)

\* C35: the start request was answered successfully without a stream entry;
\* no completion callback ran, no request is outstanding and the portal main
\* loop is still running.
C35_Witness ==
    /\ pc = "portal_loop" /\ glib_running
    /\ session.request = "none" /\ session.start_session_callback
    /\ session.invoked["selected"] = 1 /\ session.invoked["started"] = 0
    /\ ~session.session_active /\ ~data.portal_ready /\ ~sig_received

\* C36: for every frame that reaches the validity filter or the conversion,
\* resolved stride * height does not exceed the bytes valid behind the frame
\* pointer: the mapped length minus the chunk offset for a mapped buffer,
\* width * height * 4 for a frame read back by the GPU import.
C36_Claim ==
    conv.at = "resolved" => conv.stride * conv.height <= conv.valid

\* C36: a DMA buffer whose rows are padded was read back by the GPU import
\* into width * height * 4 bytes; the stride resolved from the chunk makes
\* the last row of the frame end beyond them.
C36_Witness ==
    /\ conv.at = "resolved" /\ conv.frame_data = "gl" /\ conv.height = 2
    /\ conv.spa_format = SPA_VIDEO_FORMAT_BGRx
    /\ conv.chunk_stride = conv.width * 4 + RowPadding
    /\ (conv.height - 1) * conv.stride + conv.width * 4 > conv.valid

\* Side fact of C36: the frames that were not read back by the GPU import
\* stay within the bytes behind the frame pointer.
C36_Mapped ==
    (conv.at = "resolved" /\ conv.frame_data # "gl")
        => conv.stride * conv.height <= conv.valid

\* C37: the bytes passed to a sink write are the conversion result of the
\* frame delivered in the same callback: a callback whose conversion step
\* failed (temporary buffer not allocated, or a failed conversion call) makes
\* no sink write.
C37_Claim ==
    (last.dequeued /\ last.wrote /\ last.path # "color_bars") => last.path = "convert"

\* C37: the conversion of the delivered frame failed and the callback wrote
\* the whole scratch buffer to the sink.
C37_Witness ==
    /\ last.dequeued /\ last.path = "convert_failed" /\ last.wrote
    /\ UsesTempBuffer(data.spa_format)
    /\ last.write_len = data.conversion_buffer_size /\ last.written = last.write_len

\* The effects C38 grants to a frame callback that skipped the frame for
\* warm-up or rejected it as invalid, and the rules of the frame-skip
\* counter; keeps_buffer says for which of these callbacks the scratch buffer
\* must be the same before and after.
C38_Effects(keeps_buffer) ==
    /\ (rtPc = "frame" /\ rtPc' = "idle" /\ last'.path \in {"skipped", "invalid"})
         => /\ ~last'.wrote /\ ~last'.converted /\ ~last'.quit
            /\ write_error_count' = write_error_count
            /\ consec_failed' = consec_failed
            /\ pw_running' = pw_running
            /\ keeps_buffer
                 => /\ data'.conversion_buffer = data.conversion_buffer
                    /\ data'.conversion_buffer_size = data.conversion_buffer_size
    /\ data'.frame_skip_count \in 0..SKIP_FRAMES
    /\ data'.frame_skip_count > data.frame_skip_count
         => /\ rtPc = "frame" /\ last'.dequeued /\ last'.path = "skipped"
            /\ last'.queued = 1
            /\ data'.frame_skip_count = data.frame_skip_count + 1
    /\ data'.frame_skip_count < data.frame_skip_count
         => /\ last'.param = "format" /\ last'.s_fmt /\ last'.allocs = 1
            /\ data'.format_set /\ sink' = <<data'.width, data'.height>>
            /\ data'.frame_skip_count = 0

\* C38 as stated: a frame skipped by the warm-up counter or rejected by the
\* validity filter causes no sink write, leaves the consecutive-failure
\* counter and the scratch buffer unchanged and requests no shutdown; the
\* frame-skip counter stays in 0..5, is incremented only by a frame whose
\* buffer was acquired, and is reset to 0 only by a successful sink
\* configuration.
C38_Original == [][C38_Effects(TRUE)]_vars

\* C38 (amended): as stated, except that a frame rejected by the validity
\* filter leaves the scratch buffer unchanged only if one existed: when none
\* exists the callback allocates it before it validates the frame.
C38_Claim ==
    [][C38_Effects(last'.path = "skipped" \/ data.conversion_buffer)]_vars

\* C38 witness: the frame after the warm-up was rejected by the validity
\* filter with the scratch buffer in place.
C38_Witness ==
    /\ last.dequeued /\ last.path = "invalid" /\ ~last.wrote
    /\ data.frame_skip_count = SKIP_FRAMES /\ data.conversion_buffer
    /\ data.format_set /\ frames_since_format = SKIP_FRAMES + 1

\* C39: the transport file descriptor obtained from the portal is closed at
\* most once: once it was handed to the PipeWire core connection, which
\* closes it on disconnect, portal_session_free does not close it again.
C39_Claim == session.fd_closes <= 1

\* C39: the program has exited after a completed handshake; cleanup
\* disconnected the core and freed the session, and each closed the
\* transport descriptor.
C39_Witness ==
    /\ pc = "exit" /\ session.fd_closes = 2
    /\ data.core /\ data.portal_ready /\ session.fd_given
    /\ session.pipewire_fd >= 0
    /\ released["core"] = 1 /\ released["portal_session"] = 1

\* C40: the signal handler never uses the PipeWire main loop or the portal
\* session after cleanup has destroyed them, nor one that does not exist: a
\* signal delivered once cleanup has started makes no quit call, and a signal
\* delivered at any other point makes quit calls only on the loop and the
\* session that exist (created, and not yet released by cleanup).
C40_Claim ==
    last.signalled
        => /\ last.sig_loop => (data.loop /\ released["loop"] = 0 /\ pc # "exit")
           /\ last.sig_session
                => (data.portal_session /\ released["portal_session"] = 0
                    /\ pc # "exit")

\* C40: main returned from the argument parser without reaching cleanup; a
\* signal arrived before the process ended and the handler called
\* pw_main_loop_quit on what it read from the dead struct app_data.
C40_Witness ==
    /\ last.signalled /\ last.sig_loop
    /\ pc = "exit" /\ global_app_data /\ ~data.loop /\ ~data.portal_session
    /\ released["loop"] = 0

\* Side fact of C40: while main runs, and after cleanup has started, the
\* handler makes quit calls only on a loop and a session that exist.
C40_WhileMainRuns ==
    (last.signalled /\ (pc # "exit" \/ ~global_app_data))
        => /\ last.sig_loop => (data.loop /\ released["loop"] = 0)
           /\ last.sig_session
                => (data.portal_session /\ released["portal_session"] = 0)

=============================================================================
